---- MODULE Spec2Model ----
(***************************************************************************)
(* Verification model of the async-tcp library: the chunked writer         *)
(* (TcpWriter), its one-shot chunk handlers (TcpWriteHandler), the part of *)
(* the connection context they touch, and the receive buffer (IoRxBuffer). *)
(* Sizes are scaled down; times are in microseconds as in the source.      *)
(***************************************************************************)
EXTENDS Integers, Sequences, FiniteSets, TLC

\* ---------------------------------------------------------------- bounds
MaxSize == 3
SndBufCap == 2
MaxWrites == 2
MaxTicks == 3
TickUs == 1000000
MaxPbufs == 3
MaxSegLen == 2
MaxChain == 2
MaxConsume == 3
MaxCalls == 3
MaxEvents == 2
MaxEphemeral == 3
MaxDelay == 2
MaxPcbs == 3
MaxAckChunks == 2
MaxAckSlack == 20
MaxInFlight == 4
MSS == 1                    \* TCP_MSS, below the send buffer capacity

\* ------------------------------------------------------ program constants
STALL_TIMEOUT_US == 2000000
nil_time == 0
U16_MAX == 65535

Callers == {0, 1}
Min(a, b) == IF a < b THEN a ELSE b

VARIABLES
    \* TcpWriter fields
    m_write_in_progress, m_data, m_acked, m_queued, m_total_size,
    m_last_free_estimate, m_write_start_time, m_last_progress_time, m_mode,
    \* scheduler, stack and client state seen by the writer
    at_time_list,   \* pending one-shot chunk handlers, in list order
    snd_unacked,    \* bytes accepted by tcp_write and not yet ACKed
    ctx_pcb,        \* TcpClientContext::_pcb is non-null
    client_ctx,     \* TcpClient::_ctx is non-null
    now,            \* get_absolute_time()
    fin_seen,       \* the peer's FIN has been delivered
    fin_closed,     \* that FIN found a write in progress
    late_ack,       \* the step just taken was an ACK outside any write
    ndebug,         \* build configuration: assert() compiled out
    halted,         \* an assert() fired
    caller_pc,
    \* observation of the run
    gen, cas_winners, ack_sum, ncomplete, acked_run, start_total,
    timed_out,      \* buffer of the last write the stall timeout abandoned
    \* IoRxBuffer fields
    _pcb,           \* the buffer's PCB pointer is non-null
    _head,          \* id of the head pbuf, 0 for nullptr
    _offset, _finCb,
    \* the stack's pbuf pool and what the stack and application have seen
    pbufs, nalloc, rx_alive, rx_fin,
    rxOp, fin_calls, recved, recved_sum, seen_upto, in_order, arrived,
    lost, preloaded, req_sum, overrun

txvars == <<m_write_in_progress, m_data, m_acked, m_queued, m_total_size,
            m_last_free_estimate, m_write_start_time, m_last_progress_time,
            m_mode, at_time_list, snd_unacked, ctx_pcb, client_ctx, now,
            fin_seen, fin_closed, late_ack, ndebug, halted, caller_pc, gen,
            cas_winners, ack_sum, ncomplete, acked_run, start_total,
            timed_out>>

rxvars == <<_pcb, _head, _offset, _finCb, pbufs, nalloc, rx_alive, rx_fin,
            rxOp, fin_calls, recved, recved_sum, seen_upto, in_order, arrived,
            lost, preloaded, req_sum, overrun>>

\* The async context (ContextManager), the synchronous bridges that dispatch
\* into it and the clients those bridges read.
VARIABLES
    initiated,          \* ContextManager::initiated
    ctx_lock,           \* core holding the context lock, NoCore when free
    when_pending_list,  \* callers whose worker is registered
    m_execution_mutex,  \* per bridge: owning core, NoCore when free
    sb_call,            \* per calling core: the execute() call it is in
    pcb_state,          \* tcp state of the PCB of the bridges' client
    ncalls, nevents

sbvars == <<initiated, ctx_lock, when_pending_list, m_execution_mutex,
            sb_call, pcb_state, ncalls, nevents>>

\* Ephemeral bridges created on the heap and the timed workers of the
\* context, with the clock the context fires them by.
VARIABLES
    eb_heap,            \* per bridge id: the EphemeralBridge object
    at_time_workers,    \* ids of the bridges whose worker is registered
    eb_now,             \* milliseconds since boot
    eb_log              \* number of registration failures logged

ebvars == <<eb_heap, at_time_workers, eb_now, eb_log>>

\* Perpetual bridges and the when-pending workers they register.
VARIABLES
    perpetual,          \* per bridge: the PerpetualBridge object
    pb_workers          \* bridges whose worker is in the context's list

pbvars == <<perpetual, pb_workers>>

\* What the application last learnt from the writer's watermark helpers.
VARIABLES
    advice              \* the helper asked and the value it returned

wmvars == <<advice>>

\* A TcpClient, the connection contexts it has created and the stack's
\* PCBs.
VARIABLES
    _ctx,               \* TcpClient::_ctx: id of the context, 0 for nullptr
    contexts,           \* per context id: the TcpClientContext object
    tcp_pcbs,           \* per PCB id: what the stack has done with it
    cn_ret,             \* what the last call or stack callback returned
    aborted             \* the program stopped in assert() or in a fault

cnvars == <<_ctx, contexts, tcp_pcbs, cn_ret, aborted>>

libvars == <<sbvars, ebvars, pbvars, wmvars, cnvars>>

vars == <<txvars, rxvars, libvars>>

\* ------------------------------------------- contexts, bridges, clients
Cores == {0, 1}
NoCore == 2
ContextCore == 0            \* m_context_core->core_num
Bridges == {1, 2}

\* enum tcp_state of the stack, as far as the client looks at it.
CLOSED == 0
SYN_SENT == 2
ESTABLISHED == 4
CLOSE_WAIT == 7
CLOSING == 8
NoPcbState == -1            \* the client has no context or the context no PCB
TcpStates == {CLOSED, SYN_SENT, ESTABLISHED, CLOSE_WAIT, CLOSING}

\* Result codes; a uint32_t result is written as the int it converts to.
PICO_OK == 0
PICO_ERROR_GENERIC == -2
PICO_ERROR_NO_DATA == -3
PICO_ERROR_INVALID_ARG == -5

\* err_t of the stack
ERR_OK == 0
ERR_MEM == -1
ERR_ABRT == -13

NoPayload == [op |-> "", result_ptr |-> FALSE, ip_ptr |-> FALSE,
              connect_result |-> FALSE]

\* A caller that is in no execute() call and has made none.
NoCall ==
    [pc |-> "idle", api |-> "", bridge |-> 0, payload |-> NoPayload,
     registered |-> FALSE, work_pending |-> FALSE, permits |-> 0,
     exec_result |-> 0, result |-> 0, ret |-> 0,
     nrelease |-> 0, nexecute |-> 0, on_ret |-> 0, locked |-> FALSE]

\* ContextManager::ContextManager, SyncBridge::SyncBridge for each bridge,
\* and the client they reach, whose PCB is in some state.
SyncBridgeInit ==
    /\ initiated \in BOOLEAN
    /\ ctx_lock = NoCore
    /\ when_pending_list = {}
    /\ m_execution_mutex = [b \in Bridges |-> NoCore]
    /\ sb_call = [c \in Cores |-> NoCall]
    /\ pcb_state \in {NoPcbState, ESTABLISHED}
    /\ ncalls = 0
    /\ nevents = 0

NoBridge == [m_self |-> FALSE, when |-> 0, nwork |-> 0, ndestroy |-> 0,
             user_data |-> FALSE]

EphemeralInit ==
    /\ eb_heap = <<>>
    /\ at_time_workers = {}
    /\ eb_now = 0
    /\ eb_log = 0

\* PerpetualBridge::PerpetualBridge for each bridge. The record keeps,
\* beside the worker's pending flag, what was last done with the bridge,
\* the core and the place onWork() last ran on, which core destroyed it
\* and whether onWork() ran after that.
\* No helper has been asked yet.
NoAdvice == [asked |-> "", value |-> FALSE]

AdviceInit == advice = NoAdvice

PerpetualInit ==
    /\ perpetual = [b \in Bridges |->
                      [state |-> "constructed", work_pending |-> FALSE,
                       last |-> "", work_core |-> NoCore, inline |-> FALSE,
                       destroyed_by |-> NoCore, late |-> FALSE]]
    /\ pb_workers = {}

ClientInit ==
    /\ _ctx = 0
    /\ contexts = <<>>
    /\ tcp_pcbs = <<>>
    /\ cn_ret = [op |-> "", ret |-> 0]
    /\ aborted = FALSE

\* The parts of the state a specification does not exercise.
LibIdle ==
    /\ SyncBridgeInit /\ ~initiated
    /\ pcb_state = NoPcbState
    /\ EphemeralInit /\ PerpetualInit /\ AdviceInit
    /\ ClientInit

\* ------------------------------------------------------------ the writer
\* The writer object together with the handler list it appends to.
Writer ==
    [m_write_in_progress |-> m_write_in_progress, m_data |-> m_data,
     m_acked |-> m_acked, m_queued |-> m_queued,
     m_total_size |-> m_total_size,
     m_last_free_estimate |-> m_last_free_estimate,
     m_write_start_time |-> m_write_start_time,
     m_last_progress_time |-> m_last_progress_time, m_mode |-> m_mode,
     at_time_list |-> at_time_list, halted |-> halted,
     ncomplete |-> ncomplete]

isWriteInProgress(w) == w.m_write_in_progress

remainingUnqueued(w) ==
    IF w.m_total_size > w.m_queued THEN w.m_total_size - w.m_queued ELSE 0

inFlightBytes(w) ==
    IF w.m_queued >= w.m_acked THEN w.m_queued - w.m_acked ELSE 0

\* assert(c): nothing when it holds or when asserts are compiled out,
\* otherwise the program stops where it is.
AssertFails(c) == ~c /\ ~ndebug

completeWrite(w) ==
    [w EXCEPT !.m_data = 0, !.m_acked = 0, !.m_queued = 0,
              !.m_total_size = 0, !.m_last_free_estimate = 0,
              !.m_write_start_time = nil_time,
              !.m_last_progress_time = nil_time,
              !.m_write_in_progress = FALSE,
              !.ncomplete = @ + 1]

\* Variant: the context runs the handler added last first.
create_lifo(w, off, size) ==
    [w EXCEPT !.at_time_list =
        <<[data |-> w.m_data, off |-> off, size |-> size]>> \o @]

\* TcpWriteHandler::create: a self-owning handler for one chunk, added to
\* the context's timed-worker list with delay 0.
create(w, off, size) ==
    [w EXCEPT !.at_time_list =
        Append(@, [data |-> w.m_data, off |-> off, size |-> size])]

\* TcpClientContext::availableForWrite and the client's accessor to it.
tcp_sndbuf == SndBufCap - snd_unacked
availableForWrite == IF ctx_pcb THEN tcp_sndbuf ELSE 0
ts_availableForWrite == IF client_ctx THEN availableForWrite ELSE 0

\* The while(true) loop of sendNextChunk; free is what
\* _ts_availableForWrite() returns, t what get_absolute_time() returns.
RECURSIVE sendLoop(_, _, _)
sendLoop(w, free, t) ==
    LET remaining == remainingUnqueued(w) IN
    IF remaining = 0 THEN w
    ELSE
      LET w1 == [w EXCEPT !.m_last_free_estimate = free] IN
      IF free = 0 THEN w1
      ELSE
        LET chunk_size == IF remaining > free THEN free ELSE remaining IN
        IF chunk_size = 0 THEN w1
        ELSE
          LET w2 == create([w1 EXCEPT !.m_queued = @ + chunk_size,
                                      !.m_last_progress_time = t],
                           w1.m_queued, chunk_size)
          IN IF w2.m_mode = "Enqueued" /\ w2.m_queued = w2.m_total_size
             THEN completeWrite(w2)
             ELSE sendLoop(w2, free, t)

sendNextChunk(w, free, t) ==
    IF AssertFails(isWriteInProgress(w) /\ w.m_data # 0)
       \/ AssertFails(w.m_queued >= w.m_acked)
    THEN [w EXCEPT !.halted = TRUE]
    ELSE sendLoop(w, free, t)

\* TcpWriter::write; buf is the fresh allocation made by make_unique.
write(w, buf, size, free, t) ==
    IF AssertFails(size > 0) \/ AssertFails(w.m_write_in_progress)
    THEN [w EXCEPT !.halted = TRUE]
    ELSE sendNextChunk([w EXCEPT !.m_data = buf, !.m_acked = 0,
                                 !.m_queued = 0, !.m_total_size = size,
                                 !.m_write_start_time = t,
                                 !.m_last_progress_time = t],
                       free, t)

\* onAckReceived completing as soon as nothing is left to queue.
onAckReceived_onEnqueue(w, ack_len, free, t) ==
    IF ~isWriteInProgress(w) THEN w
    ELSE
      LET w1 == [w EXCEPT !.m_acked = @ + ack_len,
                          !.m_last_progress_time = t] IN
      IF AssertFails(w1.m_acked <= w1.m_total_size)
      THEN [w1 EXCEPT !.halted = TRUE]
      ELSE IF remainingUnqueued(w1) = 0
           THEN completeWrite(w1)
           ELSE sendNextChunk(w1, free, t)

\* onAckReceived completing on the last ACK whatever the mode.
onAckReceived_anyMode(w, ack_len, free, t) ==
    IF ~isWriteInProgress(w) THEN w
    ELSE
      LET w1 == [w EXCEPT !.m_acked = @ + ack_len,
                          !.m_last_progress_time = t] IN
      IF AssertFails(w1.m_acked <= w1.m_total_size)
      THEN [w1 EXCEPT !.halted = TRUE]
      ELSE IF w1.m_acked = w1.m_total_size
           THEN completeWrite(w1)
           ELSE IF remainingUnqueued(w1) > 0
                THEN sendNextChunk(w1, free, t)
                ELSE w1

\* onAckReceived without the check for a write in progress.
onAckReceived_unguarded(w, ack_len, free, t) ==
    LET w1 == [w EXCEPT !.m_acked = @ + ack_len,
                        !.m_last_progress_time = t] IN
    IF AssertFails(w1.m_acked <= w1.m_total_size)
    THEN [w1 EXCEPT !.halted = TRUE]
    ELSE IF w1.m_mode = "Acked" /\ w1.m_acked = w1.m_total_size
         THEN completeWrite(w1)
         ELSE IF remainingUnqueued(w1) > 0
              THEN sendNextChunk(w1, free, t)
              ELSE w1

onAckReceived(w, ack_len, free, t) ==
    IF ~isWriteInProgress(w) THEN w
    ELSE
      LET w1 == [w EXCEPT !.m_acked = @ + ack_len,
                          !.m_last_progress_time = t] IN
      IF AssertFails(w1.m_acked <= w1.m_total_size)
      THEN [w1 EXCEPT !.halted = TRUE]
      ELSE IF w1.m_mode = "Acked" /\ w1.m_acked = w1.m_total_size
           THEN completeWrite(w1)
           ELSE IF remainingUnqueued(w1) > 0
                THEN sendNextChunk(w1, free, t)
                ELSE w1

\* Variant: the error notification is dropped.
onError_ignored(w) == w

onError(w) == completeWrite(w)

absolute_time_diff_us(from, to) == to - from

\* hasTimedOut with a strict comparison.
hasTimedOut_strict(w, t) ==
    IF ~isWriteInProgress(w) THEN FALSE
    ELSE IF w.m_last_progress_time = nil_time THEN FALSE
    ELSE absolute_time_diff_us(w.m_last_progress_time, t)
             > STALL_TIMEOUT_US

hasTimedOut(w, t) ==
    IF ~isWriteInProgress(w) THEN FALSE
    ELSE IF w.m_last_progress_time = nil_time THEN FALSE
    ELSE absolute_time_diff_us(w.m_last_progress_time, t)
             >= STALL_TIMEOUT_US

\* Variant: the stall is noticed and the write left running.
onWriteTimeout_leftRunning(w, t) == w

onWriteTimeout(w, t) ==
    IF ~isWriteInProgress(w) \/ w.m_last_progress_time = nil_time THEN w
    ELSE IF absolute_time_diff_us(w.m_last_progress_time, t)
                < STALL_TIMEOUT_US
         THEN w
         ELSE completeWrite(w)

\* tryStartWrite as a plain store instead of a compare-and-swap.
tryStartWrite_store(w, expected) ==
    [ok |-> TRUE, w |-> [w EXCEPT !.m_write_in_progress = TRUE]]

\* compare_exchange_strong(expected, true) on m_write_in_progress
tryStartWrite(w, expected) ==
    [ok |-> (w.m_write_in_progress = expected),
     w |-> IF w.m_write_in_progress = expected
           THEN [w EXCEPT !.m_write_in_progress = TRUE] ELSE w]

\* ----------------------------------------------------------- the actions
Commit(w) ==
    /\ m_write_in_progress' = w.m_write_in_progress
    /\ m_data' = w.m_data
    /\ m_acked' = w.m_acked
    /\ m_queued' = w.m_queued
    /\ m_total_size' = w.m_total_size
    /\ m_last_free_estimate' = w.m_last_free_estimate
    /\ m_write_start_time' = w.m_write_start_time
    /\ m_last_progress_time' = w.m_last_progress_time
    /\ m_mode' = w.m_mode
    /\ at_time_list' = w.at_time_list
    /\ halted' = w.halted
    /\ ncomplete' = w.ncomplete

\* Callers that won the CAS since the flag was last false.
Winners(w) ==
    cas_winners' = IF w.m_write_in_progress THEN cas_winners ELSE {}

\* The write observed for its ACKs: a write started in Acked mode, until
\* an error, a timeout, a mode change or the next write.
Follow(keep) ==
    /\ acked_run' = keep
    /\ ack_sum' = IF keep THEN ack_sum ELSE 0
    /\ start_total' = IF keep THEN start_total ELSE 0

\* The writer after construction, in a build with or without assert().
WriterInit(nd) ==
    /\ m_write_in_progress = FALSE /\ m_data = 0
    /\ m_acked = 0 /\ m_queued = 0 /\ m_total_size = 0
    /\ m_last_free_estimate = 0
    /\ m_write_start_time = nil_time /\ m_last_progress_time = nil_time
    /\ m_mode = "Acked"
    /\ at_time_list = <<>> /\ snd_unacked = 0
    /\ ctx_pcb = TRUE /\ client_ctx = TRUE
    /\ now = TickUs
    /\ fin_seen = FALSE /\ fin_closed = FALSE /\ late_ack = FALSE
    /\ ndebug = nd
    /\ halted = FALSE
    /\ caller_pc = [c \in Callers |-> "idle"]
    /\ gen = 0 /\ cas_winners = {} /\ ack_sum = 0 /\ ncomplete = 0
    /\ acked_run = FALSE /\ start_total = 0 /\ timed_out = 0

NoPbuf == [len |-> 0, next |-> 0, ref |-> 0, frees |-> 0, base |-> 0]

\* IoRxBuffer::IoRxBuffer(chain): chain_len is the length of the single
\* pbuf handed to the constructor, 0 for nullptr.
IoRxBuffer(chain_len) ==
    /\ _pcb = FALSE
    /\ _head = IF chain_len > 0 THEN 1 ELSE 0
    /\ _offset = 0
    /\ _finCb = FALSE
    /\ pbufs = [i \in 1..MaxPbufs |->
                  IF i = 1 /\ chain_len > 0
                  THEN [NoPbuf EXCEPT !.len = chain_len, !.ref = 1]
                  ELSE NoPbuf]
    /\ nalloc = IF chain_len > 0 THEN 1 ELSE 0
    /\ rx_alive = TRUE /\ rx_fin = FALSE
    /\ rxOp = [op |-> "init", n |-> 0, err |-> "", ret |-> ""]
    /\ fin_calls = 0 /\ recved = <<>> /\ recved_sum = 0
    /\ seen_upto = 0 /\ in_order = TRUE
    /\ arrived = chain_len /\ lost = FALSE
    /\ preloaded = (chain_len > 0)
    /\ req_sum = 0 /\ overrun = FALSE

TxInit == (\E nd \in BOOLEAN : WriterInit(nd)) /\ IoRxBuffer(0) /\ LibIdle

\* TcpClient::write on core c: the CAS, then (as a later step, possibly
\* dispatched from the other core) TcpWriter::write.
ClientWrite(c) ==
    /\ late_ack' = FALSE
    /\ ~halted /\ client_ctx /\ caller_pc[c] \in {"idle", "refused"}
    /\ gen < MaxWrites
    /\ LET r == tryStartWrite(Writer, FALSE) IN
       /\ Commit(r.w)
       /\ cas_winners' = IF r.ok THEN cas_winners \cup {c} ELSE cas_winners
       /\ caller_pc' = [caller_pc EXCEPT
                            ![c] = IF r.ok THEN "won" ELSE "refused"]
       /\ Follow(acked_run /\ ~r.ok)
    /\ UNCHANGED <<rxvars, libvars, fin_closed,
                   snd_unacked, ctx_pcb, client_ctx, now, fin_seen,
                   ndebug, gen, timed_out>>

WriterWrite(c, size) ==
    /\ late_ack' = FALSE
    /\ ~halted /\ caller_pc[c] = "won"
    /\ LET w == write([Writer EXCEPT !.ncomplete = 0], gen + 1,
                      size, ts_availableForWrite, now) IN
       /\ Commit(w)
       /\ Winners(w)
    /\ caller_pc' = [caller_pc EXCEPT ![c] = "idle"]
    /\ gen' = gen + 1
    /\ acked_run' = (m_mode = "Acked" /\ m_write_in_progress)
    /\ ack_sum' = 0
    /\ start_total' = IF acked_run' THEN size ELSE 0
    /\ UNCHANGED <<rxvars, libvars, fin_closed,
                   snd_unacked, ctx_pcb, client_ctx, now, fin_seen,
                   ndebug, timed_out>>

\* TcpClientContext::writeChunk; werr is what tcp_write returns.  The
\* result is the new count of unacknowledged bytes and the error handed to
\* _errorCb ("" when the hook is not called).
writeChunk(size, werr) ==
    IF ~ctx_pcb THEN [unacked |-> snd_unacked, err |-> "ERR_CONN"]
    ELSE IF size = 0
         THEN [unacked |-> snd_unacked, err |-> "PICO_ERROR_INVALID_ARG"]
    ELSE LET sbuf == tcp_sndbuf
             chunk_size == Min(sbuf, size) IN
         IF chunk_size = 0
         THEN [unacked |-> snd_unacked, err |-> "ERR_MEM"]
         ELSE IF werr # "ERR_OK"
              THEN [unacked |-> snd_unacked, err |-> werr]
              ELSE [unacked |-> snd_unacked + chunk_size, err |-> ""]

\* The timed worker at the head of the list fires:
\* ephemeral_bridging_function -> TcpWriteHandler::onWork ->
\* TcpClient::writeChunk -> TcpClientContext::writeChunk; an error goes to
\* TcpClient::_onErrorCallback, which closes the context and drops it.
HandlerFire(werr) ==
    /\ late_ack' = FALSE
    /\ ~halted /\ at_time_list # <<>>
    /\ LET h == Head(at_time_list)
           r == IF client_ctx /\ h.size # 0 THEN writeChunk(h.size, werr)
                ELSE [unacked |-> snd_unacked, err |-> ""] IN
       \* tcp_write can only fail where it is called
       /\ werr = "ERR_OK" \/ (client_ctx /\ ctx_pcb /\ tcp_sndbuf > 0)
       /\ snd_unacked' = r.unacked
       /\ ctx_pcb' = IF r.err # "" THEN FALSE ELSE ctx_pcb
       /\ client_ctx' = IF r.err # "" THEN FALSE ELSE client_ctx
    /\ at_time_list' = Tail(at_time_list)
    /\ UNCHANGED <<rxvars, libvars, fin_closed,
                   m_write_in_progress, m_data, m_acked, m_queued,
                   m_total_size, m_last_free_estimate, m_write_start_time,
                   m_last_progress_time, m_mode, now, fin_seen, ndebug, halted,
                   caller_pc, gen, cas_winners, ack_sum,
                   ncomplete, acked_run, start_total, timed_out>>

\* The stack's sent callback: _s_acked -> _acked -> the client's ACK hook
\* -> TcpWriter::onAckReceived.  The stack has already returned the ACKed
\* bytes to the send buffer when it calls.
Sent(len) ==
    /\ late_ack' = ~m_write_in_progress
    /\ ~halted /\ ctx_pcb /\ client_ctx
    /\ len \in 1..snd_unacked
    /\ snd_unacked' = snd_unacked - len
    /\ LET w == onAckReceived(Writer, len, SndBufCap - (snd_unacked - len),
                              now) IN
       /\ Commit(w) /\ Winners(w)
    /\ ack_sum' = IF m_write_in_progress /\ acked_run THEN ack_sum + len
                  ELSE ack_sum
    /\ UNCHANGED <<rxvars, libvars, fin_closed,
                   ctx_pcb, client_ctx, now, fin_seen, ndebug,
                   caller_pc, gen, acked_run, start_total, timed_out>>

\* The stack's poll callback: _s_poll -> _poll -> _pollCb ->
\* TcpClient::checkAndHandleWriteTimeout.
checkAndHandleWriteTimeout(w, t) ==
    IF hasTimedOut(w, t) THEN onWriteTimeout(w, t) ELSE w

Poll ==
    /\ late_ack' = FALSE
    /\ ~halted /\ ctx_pcb /\ client_ctx
    /\ LET w == checkAndHandleWriteTimeout(Writer, now) IN
       /\ Commit(w) /\ Winners(w)
       /\ Follow(acked_run /\ w = Writer)
       /\ timed_out' = IF w # Writer THEN m_data ELSE timed_out
    /\ UNCHANGED <<rxvars, libvars, fin_closed,
                   snd_unacked, ctx_pcb, client_ctx, now, fin_seen,
                   ndebug, caller_pc, gen>>

\* Time passes during a write (the writer reads the clock only then), as
\* long as the clock is below limit.  A delay-0 worker is run by the
\* context before a whole tick can pass.
Elapse(limit) ==
    /\ late_ack' = FALSE
    /\ ~halted /\ at_time_list = <<>> /\ m_write_in_progress
    /\ now < limit
    /\ now' = now + TickUs
    /\ UNCHANGED <<rxvars, libvars, fin_closed,
                   m_write_in_progress, m_data, m_acked, m_queued,
                   m_total_size, m_last_free_estimate, m_write_start_time,
                   m_last_progress_time, m_mode, at_time_list, snd_unacked,
                   ctx_pcb, client_ctx, fin_seen, ndebug, halted, caller_pc,
                   gen, cas_winners, ack_sum, ncomplete, acked_run,
                   start_total, timed_out>>

Tick == Elapse(MaxTicks * TickUs)

\* TcpWriter::onError, called by the client when the peer's FIN arrives
\* (once per connection: the stack delivers no receive after it).
WriterOnError ==
    /\ late_ack' = FALSE
    /\ ~halted /\ ctx_pcb /\ client_ctx /\ ~fin_seen
    /\ fin_seen' = TRUE /\ fin_closed' = m_write_in_progress
    /\ LET w == onError(Writer) IN Commit(w) /\ Winners(w)
    /\ Follow(FALSE)
    /\ UNCHANGED <<rxvars, libvars,
                   snd_unacked, ctx_pcb, client_ctx, now, ndebug,
                   caller_pc, gen, timed_out>>

\* The stack's error callback: _s_error -> TcpClientContext::_error ->
\* TcpClient::_onErrorCallback.
StackError ==
    /\ late_ack' = FALSE
    /\ ~halted /\ ctx_pcb /\ client_ctx
    /\ ctx_pcb' = FALSE /\ client_ctx' = FALSE
    /\ Follow(FALSE)
    /\ UNCHANGED <<rxvars, libvars, fin_closed,
                   m_write_in_progress, m_data, m_acked, m_queued,
                   m_total_size, m_last_free_estimate, m_write_start_time,
                   m_last_progress_time, m_mode, at_time_list, snd_unacked,
                   now, fin_seen, ndebug, halted, caller_pc, gen,
                   cas_winners, ncomplete, timed_out>>

setCompletionMode(w, mode) == [w EXCEPT !.m_mode = mode]

SetMode(mode) ==
    /\ late_ack' = FALSE
    /\ ~halted /\ m_mode # mode
    /\ LET w == setCompletionMode(Writer, mode) IN Commit(w) /\ Winners(w)
    /\ Follow(acked_run /\ ~m_write_in_progress)
    /\ UNCHANGED <<rxvars, libvars, fin_closed,
                   snd_unacked, ctx_pcb, client_ctx, now, fin_seen,
                   ndebug, caller_pc, gen, timed_out>>

\* cs: the cores whose application code calls write(); sizes: the payload
\* lengths they pass.
TxNextOf(cs, sizes) ==
    \/ \E c \in cs : ClientWrite(c)
    \/ \E c \in cs, size \in sizes : WriterWrite(c, size)
    \/ \E werr \in {"ERR_OK", "ERR_MEM"} : HandlerFire(werr)
    \/ \E len \in 1..SndBufCap : Sent(len)
    \/ Poll
    \/ Tick
    \/ WriterOnError
    \/ StackError
    \/ \E mode \in {"Acked", "Enqueued"} : SetMode(mode)

\* One application core writes payloads of every length; both cores write
\* payloads longer than the send buffer, so that every write is chunked.
TxNext == TxNextOf({0}, 1..MaxSize)
RaceNext == TxNextOf(Callers, {MaxSize})

TxSpec == TxInit /\ [][TxNext]_vars
RaceSpec == TxInit /\ [][RaceNext]_vars

\* -------------------------------------------------------- the rx buffer
\* The buffer object together with the pbuf pool it points into, the list
\* of lengths it has passed to tcp_recved() and the record of the bytes its
\* cursor has passed.
Rx ==
    [_pcb |-> _pcb, _head |-> _head, _offset |-> _offset, _finCb |-> _finCb,
     pbufs |-> pbufs, recved |-> <<>>, seen_upto |-> seen_upto,
     in_order |-> in_order]

\* lwIP: pbuf_ref, pbuf_free (drop one reference; a pbuf whose count
\* reaches 0 is deallocated, which leaves nothing of it but the count of
\* its deallocations, and the walk continues with its successor),
\* pbuf_cat (link t behind the last pbuf of h), tcp_recved.
pbuf_ref(ps, p) == [ps EXCEPT ![p].ref = @ + 1]

RECURSIVE pbuf_free(_, _)
pbuf_free(ps, p) ==
    IF p = 0 THEN ps
    ELSE IF ps[p].ref <= 1
         THEN pbuf_free([ps EXCEPT ![p] = [NoPbuf EXCEPT !.frees =
                                                        ps[p].frees + 1]],
                        IF ps[p].ref = 1 THEN ps[p].next ELSE 0)
         ELSE [ps EXCEPT ![p].ref = @ - 1]

RECURSIVE LastOf(_, _)
LastOf(ps, p) == IF ps[p].next = 0 THEN p ELSE LastOf(ps, ps[p].next)

pbuf_cat(ps, h, t) == [ps EXCEPT ![LastOf(ps, h)].next = t]

tcp_recved(b, len) == [b EXCEPT !.recved = Append(@, len)]

\* The cursor passes k bytes of the head pbuf, starting at the offset.
Pass(b, k) ==
    LET first == b.pbufs[b._head].base + b._offset IN
    [b EXCEPT !.in_order = @ /\ (k = 0 \/ first = b.seen_upto),
              !.seen_upto = IF k = 0 THEN @ ELSE first + k]

\* IoRxBuffer::_free without the pbuf_ref that keeps the rest of the chain.
_free_noRef(b) ==
    LET old == b._head
        nxt == b.pbufs[old].next
    IN [b EXCEPT !._head = nxt, !._offset = 0,
                 !.pbufs = pbuf_free(b.pbufs, old)]

_free(b) ==
    LET old == b._head
        nxt == b.pbufs[old].next
        ps1 == IF nxt # 0 THEN pbuf_ref(b.pbufs, nxt) ELSE b.pbufs
    IN [b EXCEPT !._head = nxt, !._offset = 0,
                 !.pbufs = pbuf_free(ps1, old)]

\* IoRxBuffer::_fastPath that never releases the exhausted head.
_fastPath_noFree(b, remaining) ==
    [b |-> [Pass(b, remaining) EXCEPT !._offset = @ + remaining],
     consumed |-> remaining]

_fastPath(b, remaining) ==
    LET b1 == [Pass(b, remaining) EXCEPT !._offset = @ + remaining] IN
    [b |-> IF b1._offset = b1.pbufs[b1._head].len THEN _free(b1) ELSE b1,
     consumed |-> remaining]

\* The while loop of _slowPath, with the running total.
RECURSIVE slowLoop(_, _, _)
slowLoop(b, remaining, consumed) ==
    IF ~(remaining > 0 /\ b._head # 0) THEN [b |-> b, consumed |-> consumed]
    ELSE
      LET available == b.pbufs[b._head].len - b._offset IN
      IF remaining < available
      THEN [b |-> [Pass(b, remaining) EXCEPT !._offset = @ + remaining],
            consumed |-> consumed + remaining]
      ELSE slowLoop(_free(Pass(b, available)), remaining - available,
                    consumed + available)

_slowPath(b, remaining) == slowLoop(b, remaining, 0)

\* _toAck casting the whole count to u16_t in one call.
_toAck_cast(b, to_ack) ==
    IF to_ack = 0 THEN b ELSE tcp_recved(b, to_ack % (U16_MAX + 1))

RECURSIVE _toAck(_, _)
_toAck(b, to_ack) ==
    IF to_ack = 0 THEN b
    ELSE LET chunk == Min(to_ack, U16_MAX) IN
         _toAck(tcp_recved(b, chunk), to_ack - chunk)

reset(b) ==
    IF b._head # 0
    THEN [b EXCEPT !.pbufs = pbuf_free(b.pbufs, b._head),
                   !._head = 0, !._offset = 0, !._pcb = FALSE]
    ELSE b

\* Position in the stream of the byte at the cursor (0 when empty).
peek(b) ==
    IF b._head = 0 THEN 0 ELSE b.pbufs[b._head].base + b._offset + 1

peekAvailable(b) ==
    IF b._head = 0 THEN 0 ELSE b.pbufs[b._head].len - b._offset

\* IoRxBuffer::peekConsume acknowledging the request, not what was removed.
peekConsume_ackRequest(b, n) ==
    IF n = 0 \/ b._head = 0 THEN b
    ELSE
      LET available == b.pbufs[b._head].len - b._offset
          r == IF n <= available THEN _fastPath(b, n) ELSE _slowPath(b, n)
      IN IF r.b._pcb /\ r.consumed > 0 THEN _toAck(r.b, n) ELSE r.b

peekConsume(b, n) ==
    IF n = 0 \/ b._head = 0 THEN b
    ELSE
      LET available == b.pbufs[b._head].len - b._offset
          r == IF n <= available THEN _fastPath(b, n) ELSE _slowPath(b, n)
      IN IF r.b._pcb /\ r.consumed > 0 THEN _toAck(r.b, r.consumed) ELSE r.b

\* lwip_receive_callback that overwrites the head instead of appending.
lwip_receive_callback_replace(b, p, err) ==
    LET b1 == [b EXCEPT !._pcb = TRUE] IN
    IF err # "ERR_OK"
    THEN [b |-> IF p # 0 THEN [b1 EXCEPT !.pbufs = pbuf_free(@, p)] ELSE b1,
          ret |-> err, fin |-> 0]
    ELSE IF p = 0
    THEN [b |-> b1, ret |-> "ERR_ABRT", fin |-> IF b1._finCb THEN 1 ELSE 0]
    ELSE [b |-> [b1 EXCEPT !._head = p, !._offset = 0],
          ret |-> "ERR_OK", fin |-> 0]

\* lwip_receive_callback that drops the buffered data on FIN.
lwip_receive_callback_finReset(b, p, err) ==
    LET b1 == [b EXCEPT !._pcb = TRUE] IN
    IF err # "ERR_OK"
    THEN [b |-> IF p # 0 THEN [b1 EXCEPT !.pbufs = pbuf_free(@, p)] ELSE b1,
          ret |-> err, fin |-> 0]
    ELSE IF p = 0
    THEN [b |-> reset(b1), ret |-> "ERR_ABRT",
          fin |-> IF b1._finCb THEN 1 ELSE 0]
    ELSE [b |-> IF b1._head # 0
                THEN [b1 EXCEPT !.pbufs = pbuf_cat(@, b1._head, p)]
                ELSE [b1 EXCEPT !._head = p, !._offset = 0],
          ret |-> "ERR_OK", fin |-> 0]

\* p is the id of the first pbuf of the chain, 0 for nullptr; fin counts
\* the calls of the registered FIN callback.
lwip_receive_callback(b, p, err) ==
    LET b1 == [b EXCEPT !._pcb = TRUE] IN
    IF err # "ERR_OK"
    THEN [b |-> IF p # 0 THEN [b1 EXCEPT !.pbufs = pbuf_free(@, p)] ELSE b1,
          ret |-> err, fin |-> 0]
    ELSE IF p = 0
    THEN [b |-> b1, ret |-> "ERR_ABRT", fin |-> IF b1._finCb THEN 1 ELSE 0]
    ELSE [b |-> IF b1._head # 0
                THEN [b1 EXCEPT !.pbufs = pbuf_cat(@, b1._head, p)]
                ELSE [b1 EXCEPT !._head = p, !._offset = 0],
          ret |-> "ERR_OK", fin |-> 0]

RECURSIVE SumSeq(_)
SumSeq(q) == IF q = <<>> THEN 0 ELSE Head(q) + SumSeq(Tail(q))

\* The pbufs linked from p, and the bytes in them.
RECURSIVE ReachSet(_, _, _)
ReachSet(ps, p, fuel) ==
    IF p = 0 \/ fuel = 0 THEN {}
    ELSE {p} \cup ReachSet(ps, ps[p].next, fuel - 1)

RECURSIVE ChainBytes(_, _, _)
ChainBytes(ps, p, fuel) ==
    IF p = 0 \/ fuel = 0 THEN 0
    ELSE ps[p].len + ChainBytes(ps, ps[p].next, fuel - 1)

\* Unconsumed bytes the buffer holds.
Buffered ==
    IF _head = 0 THEN 0 ELSE ChainBytes(pbufs, _head, MaxPbufs) - _offset

\* The stream is observed for as long as every byte handed over by the
\* receive callback is consumed by a request the buffer can satisfy.
Observed == ~preloaded /\ ~lost /\ ~overrun

RxCommit(b, keep, n) ==
    /\ _pcb' = b._pcb /\ _head' = b._head /\ _offset' = b._offset
    /\ _finCb' = b._finCb /\ pbufs' = b.pbufs
    /\ recved' = b.recved
    /\ recved_sum' = IF keep THEN recved_sum + SumSeq(b.recved) ELSE 0
    /\ seen_upto' = IF keep THEN b.seen_upto ELSE 0
    /\ in_order' = IF keep THEN b.in_order ELSE TRUE
    /\ req_sum' = IF keep THEN req_sum + n ELSE 0

RxOp(name, n, err, ret) == [op |-> name, n |-> n, err |-> err, ret |-> ret]

\* The chains the stack can hand over: the segment lengths, <<>> for p = 0.
ChainShapes == UNION {[1..k -> 1..MaxSegLen] : k \in 0..MaxChain}

\* pbufs with a fresh chain of the given segment lengths, each with one
\* reference, holding the next bytes of the stream.
Alloc(lens) ==
    [i \in 1..MaxPbufs |->
        IF i > nalloc /\ i <= nalloc + Len(lens)
        THEN [len |-> lens[i - nalloc],
              next |-> IF i < nalloc + Len(lens) THEN i + 1 ELSE 0,
              ref |-> 1, frees |-> 0,
              base |-> arrived + SumSeq(SubSeq(lens, 1, i - nalloc - 1))]
        ELSE pbufs[i]]

\* The stack calls the receive callback; after a FIN it calls no more.
Recv(lens, err) ==
    /\ rx_alive /\ ~rx_fin /\ nalloc + Len(lens) <= MaxPbufs
    /\ LET p == IF lens = <<>> THEN 0 ELSE nalloc + 1
           r == lwip_receive_callback([Rx EXCEPT !.pbufs = Alloc(lens)],
                                      p, err)
           fin == (lens = <<>> /\ err = "ERR_OK") IN
       /\ RxCommit(r.b, Observed, 0)
       /\ nalloc' = nalloc + Len(lens)
       /\ rx_fin' = fin
       /\ fin_calls' = fin_calls + r.fin
       /\ arrived' = IF r.ret = "ERR_OK" THEN arrived + SumSeq(lens)
                     ELSE arrived
       /\ rxOp' = RxOp(IF fin THEN "fin" ELSE "receive", 0, err, r.ret)
    /\ UNCHANGED <<txvars, libvars, rx_alive, lost, preloaded, overrun>>

\* The application consumes n bytes.
PeekConsume(n) ==
    /\ rx_alive
    /\ RxCommit(peekConsume(Rx, n), Observed /\ n <= Buffered, n)
    /\ overrun' = (overrun \/ n > Buffered)
    /\ rxOp' = RxOp("peekConsume", n, "", "")
    /\ UNCHANGED <<txvars, libvars,
                   nalloc, rx_alive, rx_fin, fin_calls, arrived,
                   lost, preloaded>>

Reset ==
    /\ rx_alive
    /\ RxCommit(reset(Rx), Observed /\ Buffered = 0, 0)
    /\ lost' = (lost \/ Buffered > 0)
    /\ rxOp' = RxOp("reset", 0, "", "")
    /\ UNCHANGED <<txvars, libvars,
                   nalloc, rx_alive, rx_fin, fin_calls, arrived,
                   preloaded, overrun>>

\* IoRxBuffer::~IoRxBuffer
Destroy ==
    /\ rx_alive
    /\ RxCommit(reset(Rx), Observed /\ Buffered = 0, 0)
    /\ rx_alive' = FALSE
    /\ lost' = (lost \/ Buffered > 0)
    /\ rxOp' = RxOp("destroy", 0, "", "")
    /\ UNCHANGED <<txvars, libvars,
                   nalloc, rx_fin, fin_calls, arrived, preloaded,
                   overrun>>

setOnFinCallback(b, cb) == [b EXCEPT !._finCb = cb]

\* The owner registers the FIN callback when it sets the buffer up.
SetOnFinCallback(cb) ==
    /\ rx_alive /\ cb # _finCb /\ rxOp.op = "init"
    /\ RxCommit(setOnFinCallback(Rx, cb), Observed, 0)
    /\ rxOp' = RxOp("setOnFinCallback", 0, "", "")
    /\ UNCHANGED <<txvars, libvars,
                   nalloc, rx_alive, rx_fin, fin_calls, arrived,
                   lost, preloaded, overrun>>

RxInit ==
    /\ WriterInit(FALSE) /\ LibIdle
    /\ \E chain_len \in {0, 1} : IoRxBuffer(chain_len)

RxNext ==
    \/ \E lens \in ChainShapes, err \in {"ERR_OK", "ERR_MEM"} :
            Recv(lens, err)
    \/ \E n \in 0..MaxConsume : PeekConsume(n)
    \/ Reset
    \/ Destroy
    \/ \E cb \in BOOLEAN : SetOnFinCallback(cb)

RxSpec == RxInit /\ [][RxNext]_vars

\* IoRxBuffer::_toAck on its own, for consumed counts around the multiples
\* of the stack's 16-bit limit; the buffer learns its PCB from a receive
\* callback first.
AckCounts ==
    {k * U16_MAX + d : k \in 0..MaxAckChunks,
                       d \in (-MaxAckSlack)..MaxAckSlack}
        \cap Nat

ToAck(consumed) ==
    /\ rx_alive /\ _pcb
    /\ recved' = _toAck(Rx, consumed).recved
    /\ rxOp' = RxOp("_toAck", consumed, "", "")
    /\ UNCHANGED <<txvars, libvars, _pcb, _head, _offset, _finCb, pbufs,
                   nalloc, rx_alive, rx_fin, fin_calls, recved_sum,
                   seen_upto, in_order, arrived, lost, preloaded, req_sum,
                   overrun>>

AckInit == WriterInit(FALSE) /\ LibIdle /\ IoRxBuffer(0)

AckNext ==
    \/ \E err \in {"ERR_OK", "ERR_MEM"} : Recv(<<>>, err)
    \/ \E consumed \in AckCounts : ToAck(consumed)

AckSpec == AckInit /\ [][AckNext]_vars

\* ------------------------------------------------------ writer properties
WriterFields == <<m_write_in_progress, m_data, m_acked, m_queued,
                  m_total_size, m_last_free_estimate, m_write_start_time,
                  m_last_progress_time, m_mode, at_time_list>>

CountersZero == m_acked = 0 /\ m_queued = 0 /\ m_total_size = 0

\* C1: in every state in which the program runs and the writer is idle or
\* inside a write (write() has stored the buffer), 0 <= acked <= queued
\* <= total; and after a completion the three counters are 0.
C1_CountersOrdered ==
    /\ (~halted /\ (m_data # 0 \/ ~m_write_in_progress)) =>
            (0 <= m_acked /\ m_acked <= m_queued
             /\ m_queued <= m_total_size)
    /\ (ncomplete > 0 /\ ~m_write_in_progress => CountersZero)

\* C2: a write started in Acked mode, with no error, timeout or mode change,
\* whose ACK lengths so far sum to at most its size T: it is in progress and
\* not completed while the sum is below T, and completed exactly once when
\* the sum is T.
C2_AckedCompletesOnce ==
    (acked_run /\ ~halted /\ ack_sum <= start_total) =>
        /\ (ack_sum < start_total =>
                m_write_in_progress /\ ncomplete = 0)
        /\ (ack_sum = start_total =>
                ~m_write_in_progress /\ ncomplete = 1 /\ CountersZero)

C2_Witness ==
    /\ acked_run /\ ~halted /\ start_total >= 2 /\ ack_sum = start_total
    /\ ncomplete = 1 /\ ~m_write_in_progress /\ snd_unacked = 0

Stalled(t) ==
    /\ m_write_in_progress /\ m_last_progress_time # nil_time
    /\ t - m_last_progress_time >= STALL_TIMEOUT_US

\* C4: hasTimedOut() is false while less than 2 s have passed since the
\* last queued chunk or ACK (each of which restarts the clock); a poll
\* after 2 s without progress ends the write with the flag false and the
\* counters 0, a poll before that leaves it alone; and no chunk handler of
\* an abandoned write is pending afterwards.
C4_StallTimeout ==
    [][ /\ (m_write_in_progress /\ ~Stalled(now)) =>
              ~hasTimedOut(Writer, now)
        /\ Stalled(now) => hasTimedOut(Writer, now)
        /\ (m_write_in_progress' /\ ~halted'
            /\ (m_queued' > m_queued \/ m_acked' > m_acked)) =>
              m_last_progress_time' = now'
        /\ (Poll /\ Stalled(now)) =>
              (~m_write_in_progress' /\ CountersZero' /\ m_data' = 0)
        /\ (Poll /\ ~Stalled(now)) => UNCHANGED WriterFields
        /\ \A i \in 1..Len(at_time_list') :
              timed_out' = 0 \/ at_time_list'[i].data # timed_out'
      ]_vars

C4_Witness ==
    /\ timed_out # 0 /\ ~m_write_in_progress /\ m_data = 0
    /\ CountersZero /\ gen = 1

\* C5: the first sendNextChunk() of a write queues no more than the free
\* send-buffer space, and queued - acked never exceeds the send-buffer
\* capacity.
C5_InFlightBounded ==
    [][ /\ \A c \in Callers, size \in 1..MaxSize :
              (WriterWrite(c, size) /\ ~halted') =>
                  m_queued' <= ts_availableForWrite
        /\ (m_write_in_progress' =>
                m_queued' - m_acked' <= SndBufCap)
      ]_vars

\* C11: a FIN that arrives while a write is in progress is passed to the
\* writer, and when it has been handled the write has ended: the flag is
\* false, the owned buffer released and the counters zero.
C11_FinEndsWrite ==
    [][ (WriterOnError /\ m_write_in_progress) =>
            /\ fin_seen' /\ fin_closed'
            /\ ~m_write_in_progress' /\ m_data' = 0 /\ CountersZero'
            /\ m_write_start_time' = nil_time
            /\ m_last_progress_time' = nil_time
      ]_vars

C11_Witness ==
    /\ fin_closed /\ ~m_write_in_progress /\ m_data = 0 /\ CountersZero
    /\ snd_unacked > 0

\* The chunks a step has added to the context's worker list.
NewChunks == (Len(at_time_list) + 1)..Len(at_time_list')

\* C22: every chunk a step of the writer hands to the write callback has
\* size min(remaining unqueued bytes, free send-buffer space, MSS), which
\* is never 0; total is the length of the write the step works on.
C22_ChunkIsMin ==
    [][ LET Sized(total) ==
                \A k \in NewChunks :
                    LET chunk == at_time_list'[k] IN
                    /\ chunk.size > 0
                    /\ chunk.size = Min(Min(total - chunk.off,
                                            ts_availableForWrite'), MSS)
        IN
        /\ \A c \in Callers, size \in 1..MaxSize :
              WriterWrite(c, size) => Sized(size)
        /\ \A len \in 1..SndBufCap :
              Sent(len) => Sized(m_total_size) ]_vars

\* C23: an ACK that arrives while no write is in progress changes none of
\* acked, queued, total, the progress timestamp and the in-progress flag,
\* and queues no chunk.
C23_LateAckDropped ==
    [][ \A len \in 1..SndBufCap :
          (Sent(len) /\ ~m_write_in_progress) =>
              UNCHANGED <<m_acked, m_queued, m_total_size,
                          m_last_progress_time, m_write_in_progress,
                          at_time_list>> ]_vars

C23_Witness ==
    /\ late_ack /\ ~m_write_in_progress /\ ~halted
    /\ m_acked = 0 /\ m_queued = 0 /\ m_total_size = 0
    /\ m_last_progress_time = nil_time /\ at_time_list = <<>>

\* The queued count a step leaves behind, read off the chunks it added;
\* before is the count the step started from.
QueuedAfter(before) ==
    IF NewChunks = {} THEN before
    ELSE at_time_list'[Len(at_time_list')].off
             + at_time_list'[Len(at_time_list')].size

\* C24: in Enqueued mode write() and onAckReceived() complete the write
\* exactly when their sendNextChunk() call queues the last byte, whatever
\* has been ACKed; an ACK that queues nothing completes nothing.
C24_EnqueuedCompletes ==
    [][ (m_mode = "Enqueued" /\ ~halted') =>
          /\ \A c \in Callers, size \in 1..MaxSize :
                WriterWrite(c, size) =>
                    (ncomplete' = 1 <=> QueuedAfter(0) = size)
          /\ \A len \in 1..SndBufCap :
                (Sent(len) /\ m_write_in_progress /\ m_data # 0) =>
                    (ncomplete' = ncomplete + 1 <=>
                        /\ m_queued < m_total_size
                        /\ QueuedAfter(m_queued) = m_total_size) ]_vars

\* The write has completed while its chunks still wait to be written.
C24_Witness ==
    /\ m_mode = "Enqueued" /\ ~m_write_in_progress /\ ncomplete = 1
    /\ gen = 1 /\ at_time_list # <<>> /\ snd_unacked = 0
    /\ ~fin_seen /\ timed_out = 0 /\ ~halted

\* C25: from one step of a write to the next (the same buffer, still in
\* progress) queued does not decrease and acked does not decrease, and
\* acked <= queued after every step of the write.
C25_MonotoneWithinWrite ==
    [][ (/\ m_write_in_progress' /\ m_data' # 0 /\ ~halted') =>
          /\ m_acked' <= m_queued'
          /\ (m_write_in_progress /\ m_data' = m_data) =>
                (m_queued' >= m_queued /\ m_acked' >= m_acked) ]_vars

\* C26: no step taken while a write is in progress (after write() has
\* stored the buffer, before the write completes) changes the completion
\* mode.
C26_ModeFixedDuringWrite ==
    [][ (m_write_in_progress /\ m_data # 0) => m_mode' = m_mode ]_vars

\* ---------------------------------------------------- rx buffer properties
\* C6: bytes handed over by receive callbacks and consumed by requests that
\* sum to what has arrived (each within what is buffered) pass the cursor
\* exactly in arrival order, peek() shows the oldest unconsumed byte, and
\* once all S bytes are consumed the buffer is empty (head null, offset 0)
\* with exactly S bytes acknowledged to the stack.
C6_RoundTrip ==
    Observed =>
        /\ in_order /\ seen_upto = req_sum /\ recved_sum = req_sum
        /\ req_sum <= arrived
        /\ (_head # 0 => peek(Rx) = seen_upto + 1)
        /\ (req_sum = arrived => _head = 0 /\ _offset = 0
                                  /\ recved_sum = arrived)

C6_Witness ==
    /\ Observed /\ rx_alive /\ rxOp.op = "peekConsume"
    /\ arrived >= 3 /\ nalloc >= 2 /\ req_sum = arrived
    /\ _head = 0 /\ recved_sum = arrived /\ rxOp.n < arrived

\* C7 as stated: every peekConsume(n) with n > 0 passes lengths summing to
\* exactly n to tcp_recved() and advances the cursor by exactly n.
C7_ConsumeExact ==
    [][ (rxOp'.op = "peekConsume" /\ rxOp'.n > 0) =>
            /\ SumSeq(recved') = rxOp'.n
            /\ Buffered - Buffered' = rxOp'.n
      ]_vars

\* C7: every peekConsume(n) with n > 0 advances the cursor by
\* min(n, bytes buffered), inside the head segment, up to a segment
\* boundary or across segments, and passes lengths of at most 65535 each
\* that sum to the same count to tcp_recved() when the PCB is known (and
\* none when it is not).
C7_ConsumeBuffered ==
    [][ (rxOp'.op = "peekConsume" /\ rxOp'.n > 0) =>
            LET k == Min(rxOp'.n, Buffered) IN
            /\ Buffered - Buffered' = k
            /\ SumSeq(recved') = IF _pcb THEN k ELSE 0
            /\ \A i \in 1..Len(recved') : recved'[i] \in 1..U16_MAX
      ]_vars

C7_Witness ==
    /\ rxOp.op = "peekConsume" /\ rxOp.n = 3 /\ SumSeq(recved) = 3
    /\ _head # 0 /\ _offset > 0 /\ pbufs[1].frees = 1

\* C27: a consumed count acknowledged to the stack is passed to
\* tcp_recved() in calls of at least 1 and at most 65535 each that sum to
\* the count; a count of at most 65535 takes a single call (none for 0).
C27_AckSplit ==
    rxOp.op = "_toAck" =>
        /\ \A i \in 1..Len(recved) : recved[i] \in 1..U16_MAX
        /\ SumSeq(recved) = rxOp.n
        /\ rxOp.n <= U16_MAX => Len(recved) = (IF rxOp.n = 0 THEN 0 ELSE 1)

C27_Witness ==
    /\ rxOp.op = "_toAck" /\ rxOp.n > 2 * U16_MAX
    /\ Len(recved) = 3 /\ recved[3] < U16_MAX

\* C8: head null implies offset 0, and head non-null implies
\* 0 <= offset < head.len.
C8_OffsetInHead ==
    /\ (_head = 0 => _offset = 0)
    /\ (_head # 0 => 0 <= _offset /\ _offset < pbufs[_head].len)

C8_Witness ==
    /\ rxOp.op = "peekConsume" /\ rxOp.n >= 2
    /\ _head # 0 /\ _offset = 0 /\ pbufs[_head].base > 0
    /\ pbufs[1].frees = 1

Reachable == ReachSet(pbufs, _head, MaxPbufs)

\* C9: every pbuf that was handed to the buffer is either linked from the
\* head, live and held by one reference, or not linked and deallocated
\* exactly once; a receive callback with err != ok returns that error and
\* leaves head and offset alone; after destruction every pbuf is
\* deallocated.
C9_OwnedOrFreedOnce ==
    [][ /\ \A i \in 1..nalloc' :
              IF i \in Reachable'
              THEN pbufs'[i].frees = 0 /\ pbufs'[i].ref = 1
              ELSE pbufs'[i].frees = 1
        /\ (rxOp'.op = "receive" /\ rxOp'.err # "ERR_OK") =>
              (rxOp'.ret = rxOp'.err /\ UNCHANGED <<_head, _offset>>
               /\ Reachable' = Reachable)
        /\ (~rx_alive' => \A i \in 1..nalloc' : pbufs'[i].frees = 1)
      ]_vars

C9_Witness ==
    /\ rxOp.op = "peekConsume" /\ nalloc = MaxPbufs
    /\ _head # 0 /\ pbufs[_head].next # 0
    /\ \E i \in 1..nalloc : pbufs[i].frees = 1

\* C10: the receive callback with p = null calls the registered FIN
\* callback once, returns ERR_ABRT, and changes neither the chain nor the
\* cursor nor the byte peek() shows; the callback is never called a second
\* time; and consuming all buffered bytes after the FIN empties the buffer
\* and acknowledges exactly that many bytes.
C10_FinKeepsData ==
    [][ /\ rxOp'.op = "fin" =>
              /\ rxOp'.ret = "ERR_ABRT"
              /\ fin_calls' = fin_calls + (IF _finCb THEN 1 ELSE 0)
              /\ UNCHANGED <<_head, _offset, pbufs>>
              /\ peek(Rx)' = peek(Rx)
        /\ fin_calls' <= 1
        /\ (rx_fin /\ rxOp'.op = "peekConsume" /\ Buffered > 0
            /\ rxOp'.n = Buffered) =>
              (_head' = 0 /\ _offset' = 0 /\ SumSeq(recved') = Buffered)
      ]_vars

C10_Witness ==
    /\ rx_fin /\ fin_calls = 1 /\ rxOp.op = "peekConsume"
    /\ _head = 0 /\ SumSeq(recved) >= 2 /\ rx_alive

\* ------------------------------------------------------ the sync bridge
\* Payloads handed to execute(): AccessorPayload with op STATUS or CONNECT
\* or a value outside the enum, with and without the pointer STATUS needs.
Payloads ==
    {[NoPayload EXCEPT !.op = "STATUS", !.result_ptr = TRUE],
     [NoPayload EXCEPT !.op = "STATUS"],
     [NoPayload EXCEPT !.op = "CONNECT"],
     [NoPayload EXCEPT !.op = "OTHER"]}

state(s) ==
    IF s = NoPcbState \/ s = CLOSE_WAIT \/ s = CLOSING THEN CLOSED ELSE s

\* The client's status as read inside the networking context.
_ts_status == state(pcb_state)

\* TcpClientSyncAccessor::onExecute: the code it returns and
\* the value it stores through result_ptr, if it stores one.
onExecute(p) ==
    CASE p.op = "STATUS" ->
            IF p.result_ptr
            THEN [ret |-> PICO_OK, store |-> TRUE, val |-> _ts_status]
            ELSE [ret |-> PICO_ERROR_NO_DATA, store |-> FALSE, val |-> 0]
      [] p.op = "CONNECT" ->
            IF p.ip_ptr /\ p.connect_result
            THEN [ret |-> PICO_OK, store |-> FALSE, val |-> 0]
            ELSE [ret |-> PICO_ERROR_NO_DATA, store |-> FALSE, val |-> 0]
      [] OTHER ->
            [ret |-> PICO_ERROR_INVALID_ARG, store |-> FALSE, val |-> 0]

doExecute(p) == onExecute(p)

\* sem_release on the semaphore of sem_init(sem, 0, 1).
sem_release(permits) == IF permits < 1 THEN permits + 1 ELSE permits

\* Variant: the handler releases the semaphore twice.
sync_handler_twice(call) ==
    LET r == doExecute(call.payload) IN
    [call EXCEPT !.exec_result = r.ret, !.on_ret = r.ret,
                 !.result = IF r.store THEN r.val ELSE @,
                 !.nexecute = @ + 1,
                 !.permits = sem_release(sem_release(@)),
                 !.nrelease = @ + 2]

\* Variant: the handler drops what onExecute returned.
sync_handler_noStore(call) ==
    LET r == doExecute(call.payload) IN
    [call EXCEPT !.on_ret = r.ret,
                 !.result = IF r.store THEN r.val ELSE @,
                 !.nexecute = @ + 1,
                 !.permits = sem_release(@), !.nrelease = @ + 1]

\* Variant: the handler never releases the semaphore.
sync_handler_noRelease(call) ==
    LET r == doExecute(call.payload) IN
    [call EXCEPT !.exec_result = r.ret, !.on_ret = r.ret,
                 !.result = IF r.store THEN r.val ELSE @,
                 !.nexecute = @ + 1]

sync_handler(call) ==
    LET r == doExecute(call.payload) IN
    [call EXCEPT !.exec_result = r.ret, !.on_ret = r.ret,
                 !.result = IF r.store THEN r.val ELSE @,
                 !.nexecute = @ + 1,
                 !.permits = sem_release(@), !.nrelease = @ + 1]

\* ContextManager::addWorker(PerpetualWorker&) for the worker of caller c.
addWorker(list, c) ==
    IF ~initiated THEN [ok |-> FALSE, list |-> list]
    ELSE [ok |-> TRUE, list |-> list \cup {c}]

setWorkPending(pending) == IF initiated THEN TRUE ELSE pending

\* Variant: removeWorker() leaves the worker in the list.
removeWorker_kept(list, c) == list

removeWorker(list, c) == IF ~initiated THEN list ELSE list \ {c}

\* Variant: the context lock is not taken.
acquireLock_skipped(lock, c) == lock

acquireLock(lock, c) == IF initiated THEN c ELSE lock

releaseLock(lock) == IF initiated THEN NoCore ELSE lock

isCrossCore(c) == ContextCore # c

initDefaultContext(sdk_ok) == IF ~initiated THEN sdk_ok ELSE TRUE


SbOthers == <<txvars, rxvars, ebvars, pbvars, wmvars, cnvars>>

InCall(c) == sb_call[c].pc \notin {"idle", "done"}

\* Application code on core c calls execute(p) on bridge b.
Execute(c, b, p) ==
    /\ ~InCall(c) /\ ncalls < MaxCalls
    /\ sb_call' = [sb_call EXCEPT ![c] =
            [NoCall EXCEPT !.pc = "calling", !.api = "execute",
                           !.bridge = b, !.payload = p]]
    /\ ncalls' = ncalls + 1
    /\ UNCHANGED <<SbOthers, initiated, ctx_lock, when_pending_list,
                   m_execution_mutex, pcb_state, nevents>>

\* Application code on core c calls status() on the accessor b: up to the
\* context lock on the context's core, up to execute() on the other core.
Status(c, b) ==
    /\ ~InCall(c) /\ ncalls < MaxCalls
    /\ sb_call' = [sb_call EXCEPT ![c] =
            IF ~isCrossCore(c)
            THEN [NoCall EXCEPT !.pc = "locking", !.api = "status",
                                !.bridge = b]
            ELSE [NoCall EXCEPT !.pc = "calling", !.api = "status",
                                !.bridge = b,
                                !.payload = [NoPayload EXCEPT
                                                !.op = "STATUS",
                                                !.result_ptr = TRUE]]]
    /\ ncalls' = ncalls + 1
    /\ UNCHANGED <<SbOthers, initiated, ctx_lock, when_pending_list,
                   m_execution_mutex, pcb_state, nevents>>

\* Variant: execute() does not wait for the bridge mutex.
LockBridge_noWait(c) ==
    LET call == sb_call[c] IN
    /\ call.pc = "calling"
    /\ m_execution_mutex' = [m_execution_mutex EXCEPT ![call.bridge] = c]
    /\ sb_call' = [sb_call EXCEPT ![c] =
            [call EXCEPT !.pc = "entered", !.permits = 0,
                         !.exec_result = 0]]
    /\ UNCHANGED <<SbOthers, initiated, ctx_lock, when_pending_list,
                   pcb_state, ncalls, nevents>>

\* execute(): lockBridge() returns, then getSemaphore(),
\* getExecutionContext() and getWorker().
LockBridge(c) ==
    LET call == sb_call[c] IN
    /\ call.pc = "calling"
    /\ m_execution_mutex[call.bridge] \in {NoCore, c}
    /\ m_execution_mutex' = [m_execution_mutex EXCEPT ![call.bridge] = c]
    /\ sb_call' = [sb_call EXCEPT ![c] =
            [call EXCEPT !.pc = "entered", !.permits = 0,
                         !.exec_result = 0]]
    /\ UNCHANGED <<SbOthers, initiated, ctx_lock, when_pending_list,
                   pcb_state, ncalls, nevents>>

\* executeWork() up to the blocking acquire.
ExecuteWork(c) ==
    LET call == sb_call[c]
        added == addWorker(when_pending_list, c) IN
    /\ call.pc = "entered" /\ ctx_lock = NoCore
    /\ when_pending_list' = added.list
    /\ sb_call' = [sb_call EXCEPT ![c] =
            [call EXCEPT !.pc = "waiting", !.registered = added.ok,
                         !.work_pending = setWorkPending(@)]]
    /\ UNCHANGED <<SbOthers, initiated, ctx_lock, m_execution_mutex,
                   pcb_state, ncalls, nevents>>

\* The context, on its core, runs the pending worker of caller c.
Dispatch(c) ==
    /\ initiated /\ ctx_lock = NoCore
    /\ c \in when_pending_list /\ sb_call[c].work_pending
    /\ sb_call' = [sb_call EXCEPT ![c] =
            [sync_handler(sb_call[c]) EXCEPT !.work_pending = FALSE]]
    /\ UNCHANGED <<SbOthers, initiated, ctx_lock, when_pending_list,
                   m_execution_mutex, pcb_state, ncalls, nevents>>

\* sem_acquire_blocking() returns; executeWork() removes the worker and
\* returns the result, execute() unlocks the bridge and returns it.
Wake(c) ==
    LET call == sb_call[c] IN
    /\ call.pc = "waiting" /\ call.permits > 0 /\ ctx_lock = NoCore
    /\ when_pending_list' = removeWorker(when_pending_list, c)
    /\ m_execution_mutex' = [m_execution_mutex EXCEPT
                                ![call.bridge] = NoCore]
    /\ sb_call' = [sb_call EXCEPT ![c] =
            [call EXCEPT !.pc = "done", !.permits = @ - 1,
                         !.registered = FALSE, !.ret = call.exec_result,
                         !.payload = NoPayload, !.bridge = 0]]
    /\ UNCHANGED <<SbOthers, initiated, ctx_lock, pcb_state, ncalls,
                   nevents>>

\* status() on the context's core: ctxLock() returns.
StatusLock(c) ==
    LET call == sb_call[c] IN
    /\ call.pc = "locking"
    /\ initiated => ctx_lock = NoCore
    /\ ctx_lock' = acquireLock(ctx_lock, c)
    /\ sb_call' = [sb_call EXCEPT ![c] =
            [call EXCEPT !.pc = "locked", !.locked = initiated]]
    /\ UNCHANGED <<SbOthers, initiated, when_pending_list,
                   m_execution_mutex, pcb_state, ncalls, nevents>>

\* status() on the context's core: the read, ctxUnlock() and the return.
StatusRead(c) ==
    LET call == sb_call[c] IN
    /\ call.pc = "locked"
    /\ ctx_lock' = releaseLock(ctx_lock)
    /\ sb_call' = [sb_call EXCEPT ![c] =
            [call EXCEPT !.pc = "done", !.result = _ts_status, !.bridge = 0,
                         !.locked = FALSE]]
    /\ UNCHANGED <<SbOthers, initiated, when_pending_list,
                   m_execution_mutex, pcb_state, ncalls, nevents>>

\* The states a PCB passes through from connect to close or abort.
NextStates(s) ==
    CASE s = NoPcbState -> {SYN_SENT}
      [] s = SYN_SENT -> {ESTABLISHED, NoPcbState}
      [] s = ESTABLISHED -> {CLOSE_WAIT, NoPcbState}
      [] OTHER -> {NoPcbState}

\* A callback of the stack, run as a task of the networking context, moves
\* the client's PCB to state s (or takes the PCB away).
StackEvent(s) ==
    /\ nevents < MaxEvents /\ ctx_lock = NoCore
    /\ s \in NextStates(pcb_state)
    /\ pcb_state' = s
    /\ nevents' = nevents + 1
    /\ UNCHANGED <<SbOthers, initiated, ctx_lock, when_pending_list,
                   m_execution_mutex, sb_call, ncalls>>

InitContext(sdk_ok) ==
    /\ initiated' = initDefaultContext(sdk_ok)
    /\ UNCHANGED <<SbOthers, ctx_lock, when_pending_list,
                   m_execution_mutex, sb_call, pcb_state, ncalls, nevents>>

SbInit ==
    /\ WriterInit(FALSE) /\ IoRxBuffer(0)
    /\ SyncBridgeInit /\ EphemeralInit /\ PerpetualInit /\ AdviceInit
    /\ ClientInit

SbSteps ==
    \/ \E c \in Cores, b \in Bridges, p \in Payloads : Execute(c, b, p)
    \/ \E c \in Cores, b \in Bridges : Status(c, b)
    \/ \E c \in Cores : LockBridge(c)
    \/ \E c \in Cores : ExecuteWork(c)
    \/ \E c \in Cores : Dispatch(c)
    \/ \E c \in Cores : Wake(c)
    \/ \E c \in Cores : StatusLock(c)
    \/ \E c \in Cores : StatusRead(c)
    \/ \E s \in TcpStates \cup {NoPcbState} : StackEvent(s)

SbNext == SbSteps \/ \E sdk_ok \in BOOLEAN : InitContext(sdk_ok)

SbSpec == SbInit /\ [][SbNext]_vars


\* The same steps with a context that is initialised and keeps running:
\* each core's code advances and the context dispatches pending workers.
SbFairInit == SbInit /\ initiated

SbFairSpec ==
    /\ SbFairInit /\ [][SbSteps]_vars
    /\ \A c \in Cores :
          /\ WF_vars(LockBridge(c)) /\ WF_vars(ExecuteWork(c))
          /\ WF_vars(Dispatch(c)) /\ WF_vars(Wake(c))
          /\ WF_vars(StatusLock(c)) /\ WF_vars(StatusRead(c))

\* -------------------------------------------------- sync bridge properties
\* C12: the completion semaphore of an execute() call is released once, by
\* the handler the context runs, never by another step; the caller's
\* blocking acquire returns only after that release, and at the return the
\* semaphore has been released exactly once.
C12_ReleasedOnce ==
    [][ \A c \in Cores :
          /\ sb_call[c].nrelease <= 1
          /\ sb_call'[c].nrelease > sb_call[c].nrelease =>
                /\ Dispatch(c)
                /\ sb_call[c].pc = "waiting"
                /\ sb_call'[c].nrelease = 1 /\ sb_call'[c].permits = 1
          /\ Wake(c) =>
                /\ sb_call[c].nrelease = 1 /\ sb_call[c].permits = 1
                /\ sb_call'[c].nrelease = 1 /\ sb_call'[c].permits = 0
      ]_vars

C12_Witness ==
    \E c \in Cores :
        /\ sb_call[c].pc = "done" /\ sb_call[c].api = "execute"
        /\ sb_call[c].nrelease = 1 /\ sb_call[c].permits = 0

\* C13: onExecute(payload) of an execute() call runs once, in the handler
\* the context runs on its core while the caller is blocked, and execute()
\* returns what onExecute returned.
C13_ExecutedOnceBeforeReturn ==
    [][ \A c \in Cores :
          /\ sb_call'[c].nexecute > sb_call[c].nexecute =>
                /\ Dispatch(c) /\ initiated
                /\ sb_call[c].pc = "waiting" /\ sb_call'[c].pc = "waiting"
                /\ sb_call'[c].nexecute = 1
                /\ sb_call'[c].on_ret = onExecute(sb_call[c].payload).ret
          /\ Wake(c) =>
                /\ sb_call[c].nexecute = 1 /\ sb_call'[c].nexecute = 1
                /\ sb_call'[c].ret = sb_call[c].on_ret
      ]_vars

C13_Witness ==
    \E c \in Cores :
        /\ sb_call[c].pc = "done" /\ sb_call[c].api = "execute"
        /\ sb_call[c].nexecute = 1
        /\ sb_call[c].ret = PICO_ERROR_INVALID_ARG

\* C14: with the context initialised and dispatching, every execute() call
\* made on either core returns, also when both cores call at once on the
\* same bridge or on different bridges.
C14_ExecuteReturns ==
    \A c \in Cores :
        (sb_call[c].pc = "calling") ~> (sb_call[c].pc = "done")

C14_Witness ==
    /\ sb_call[0].pc = "done" /\ sb_call[0].api = "execute"
    /\ sb_call[1].pc = "waiting"
    /\ m_execution_mutex[sb_call[1].bridge] = 1
    /\ ncalls = MaxCalls

\* C15: execute() on a context that is not initialised returns an error to
\* the caller instead of blocking, and onExecute is not run.
C15_UninitialisedRefused ==
    [][ \A c \in Cores :
          (ExecuteWork(c) /\ ~initiated) =>
                /\ sb_call'[c].pc = "done"
                /\ sb_call'[c].ret # PICO_OK
                /\ sb_call'[c].nexecute = 0
      ]_vars

\* C16: status() stores the PCB state as it is inside the networking
\* context at the moment of the read, on the context's core (under the
\* context lock) and on the other core (in the dispatched handler) alike;
\* no task of the context changes the PCB between taking the lock and the
\* read, and what status() returns is the value stored.
C16_StatusSameOnEitherCore ==
    [][ /\ \A c \in Cores :
            /\ StatusRead(c) =>
                  /\ sb_call'[c].result = state(pcb_state)
                  /\ sb_call[c].locked => ctx_lock = c
            /\ (Dispatch(c) /\ sb_call[c].api = "status") =>
                  /\ sb_call'[c].result = state(pcb_state)
                  /\ ctx_lock = NoCore
            /\ (Wake(c) /\ sb_call[c].api = "status") =>
                  sb_call'[c].result = sb_call[c].result
        /\ pcb_state' # pcb_state =>
              \A c \in Cores :
                  ~(sb_call[c].pc = "locked" /\ sb_call[c].locked)
        /\ (/\ nevents = 0
            /\ \A c \in Cores : /\ sb_call[c].pc = "done"
                                /\ sb_call[c].api = "status") =>
              sb_call[0].result = sb_call[1].result
      ]_vars

C16_Witness ==
    /\ initiated
    /\ \A c \in Cores : /\ sb_call[c].pc = "done"
                        /\ sb_call[c].api = "status"
                        /\ sb_call[c].result = ESTABLISHED
    /\ sb_call[1].nexecute = 1 /\ sb_call[0].nexecute = 0


\* -------------------------------------------------- the ephemeral bridge
\* EphemeralBridge::initialiseBridge: handler and payload of the worker.
initialiseBridge(b) == [b EXCEPT !.user_data = TRUE]

\* takeOwnership(std::move(handler)): the bridge now owns itself.
takeOwnership(b) == [b EXCEPT !.m_self = TRUE]

\* releaseOwnership(): the self-pointer moves to the caller.
releaseOwnership(b) ==
    [bridge |-> [b EXCEPT !.m_self = FALSE], local |-> b.m_self]

\* ContextManager::addWorker(EphemeralWorker&, delay) for bridge id i;
\* the scheduler refuses a worker that is already in its list.
addEphemeralWorker(i, b) ==
    IF ~initiated THEN FALSE
    ELSE IF ~b.user_data THEN FALSE
    ELSE i \notin at_time_workers

\* EphemeralBridge::run(run_in) for bridge id i: whether the worker was
\* registered and whether the failure was logged.
run(i, b) ==
    LET added == addEphemeralWorker(i, b) IN
    [added |-> added, logged |-> ~added]

\* Variant: the fire handler leaves the self-pointer in the bridge.
ephemeral_bridging_function_keep(b) ==
    LET worked == [b EXCEPT !.user_data = FALSE, !.nwork = @ + 1] IN
    worked

\* ephemeral_bridging_function: the self-pointer moves into a local, the
\* worker's payload is cleared, onWork() runs, and the local destroys the
\* bridge when the function returns.
ephemeral_bridging_function(b) ==
    LET rel == releaseOwnership(b)
        worked == [rel.bridge EXCEPT !.user_data = FALSE, !.nwork = @ + 1]
    IN  IF rel.local THEN [worked EXCEPT !.ndestroy = @ + 1] ELSE worked

EbOthers == <<txvars, rxvars, cnvars, pbvars, wmvars, ctx_lock,
              when_pending_list, m_execution_mutex, sb_call, pcb_state,
              ncalls, nevents>>

\* A handler factory such as TcpWriteHandler::create, with the delay its
\* handler class passes to run(): the bridge is built, initialised, made
\* its own owner and scheduled, and the factory's frame unwinds holding an
\* empty handle.
EphemeralCreate(run_in) ==
    LET i == Len(eb_heap) + 1
        b == takeOwnership(initialiseBridge(
                 [NoBridge EXCEPT !.when = eb_now + run_in]))
        r == run(i, b) IN
    /\ i <= MaxEphemeral
    /\ eb_heap' = Append(eb_heap, b)
    /\ at_time_workers' = IF r.added THEN at_time_workers \cup {i}
                          ELSE at_time_workers
    /\ eb_log' = IF r.logged THEN eb_log + 1 ELSE eb_log
    /\ UNCHANGED <<EbOthers, initiated, eb_now>>

\* The context removes the due worker of bridge i from its list and calls
\* the fire handler.
EphemeralFire(i) ==
    /\ initiated /\ i \in at_time_workers /\ eb_heap[i].when <= eb_now
    /\ at_time_workers' = at_time_workers \ {i}
    /\ eb_heap' = [eb_heap EXCEPT
                      ![i] = ephemeral_bridging_function(eb_heap[i])]
    /\ UNCHANGED <<EbOthers, initiated, eb_now, eb_log>>

\* A millisecond passes; due workers fire before the clock moves on.
EphemeralTick ==
    /\ eb_now < MaxDelay
    /\ \A i \in at_time_workers : eb_heap[i].when > eb_now
    /\ eb_now' = eb_now + 1
    /\ UNCHANGED <<EbOthers, initiated, eb_heap, at_time_workers, eb_log>>

EbInit ==
    /\ WriterInit(FALSE) /\ IoRxBuffer(0)
    /\ SyncBridgeInit /\ pcb_state = NoPcbState
    /\ EphemeralInit /\ PerpetualInit /\ AdviceInit /\ ClientInit

EbNext ==
    \/ \E run_in \in 0..MaxDelay : EphemeralCreate(run_in)
    \/ \E i \in 1..MaxEphemeral : EphemeralFire(i)
    \/ EphemeralTick
    \/ \E sdk_ok \in BOOLEAN : InitContext(sdk_ok)

EbSpec == EbInit /\ [][EbNext]_vars


\* --------------------------------------------- ephemeral bridge properties
\* C17: a scheduled ephemeral bridge nobody else holds is not destroyed
\* while its worker is registered; when the worker fires, onWork() runs
\* once and the bridge is destroyed within the fire handler; it is
\* destroyed by no other step and never a second time.
C17_DestroyedOnceOnFire ==
    [][ \A i \in DOMAIN eb_heap :
          /\ eb_heap[i].ndestroy <= 1 /\ eb_heap[i].nwork <= 1
          /\ i \in at_time_workers =>
                /\ eb_heap[i].m_self
                /\ eb_heap[i].ndestroy = 0 /\ eb_heap[i].nwork = 0
          /\ EphemeralFire(i) =>
                /\ eb_heap'[i].nwork = 1 /\ eb_heap'[i].ndestroy = 1
                /\ ~eb_heap'[i].m_self /\ i \notin at_time_workers'
          /\ eb_heap'[i].ndestroy # eb_heap[i].ndestroy => EphemeralFire(i)
      ]_vars

C17_Witness ==
    \E i \in DOMAIN eb_heap :
        /\ eb_heap[i].ndestroy = 1 /\ eb_heap[i].nwork = 1
        /\ eb_heap[i].when > 0 /\ ~eb_heap[i].m_self
        /\ i \notin at_time_workers

\* C18: every failed registration of an ephemeral bridge is logged, and no
\* bridge is left that is neither scheduled nor destroyed.
C18_FailedRunFreed ==
    /\ eb_log = Cardinality({i \in DOMAIN eb_heap :
                                /\ i \notin at_time_workers
                                /\ eb_heap[i].nwork = 0})
    /\ \A i \in DOMAIN eb_heap :
          i \in at_time_workers \/ eb_heap[i].ndestroy = 1


\* ------------------------------------------------------- client connection
\* The client's context pointer with the heap of contexts and the stack's
\* PCBs it reaches, as one value the member functions transform.
ClientWorld == [_ctx |-> _ctx, contexts |-> contexts, tcp_pcbs |-> tcp_pcbs]

\* tcp_new(): a PCB in state CLOSED, or none. A PCB records how the stack
\* freed it and whether it was handed to the stack again afterwards.
tcp_new(w) ==
    [w EXCEPT !.tcp_pcbs = Append(@, [state |-> CLOSED, freed |-> "",
                                      misused |-> FALSE])]

\* new TcpClientContext(pcb, nullptr, nullptr)
TcpClientContext(w, pcb) ==
    [w EXCEPT !.contexts = Append(@, [_pcb |-> pcb, _ref_cnt |-> 0,
                                      deleted |-> FALSE, pcb_given |-> pcb])]

ref(w, id) == [w EXCEPT !.contexts[id]._ref_cnt = @ + 1]

\* tcp_close(pcb), and tcp_abort(pcb) when that fails: the stack frees the
\* PCB; a PCB it has freed before is memory misused.
StackFrees(pcb, tcp_close_err) ==
    IF pcb.freed # ""
    THEN [pcb EXCEPT !.misused = TRUE]
    ELSE [pcb EXCEPT !.freed = IF tcp_close_err = ERR_OK THEN "tcp_close"
                               ELSE "tcp_abort"]

\* TcpClientContext::close(): tcp_close(), tcp_abort() when that fails, and
\* the context forgets the PCB either way.
\* Variant: close() leaves the context pointing at the PCB.
close_keepsPcb(w, id, tcp_close_err) ==
    LET pcb == w.contexts[id]._pcb IN
    IF pcb = 0
    THEN [w |-> w, err |-> ERR_OK]
    ELSE [w |-> [w EXCEPT !.tcp_pcbs[pcb] = StackFrees(@, tcp_close_err)],
          err |-> IF tcp_close_err = ERR_OK THEN ERR_OK ELSE ERR_ABRT]

close(w, id, tcp_close_err) ==
    LET pcb == w.contexts[id]._pcb IN
    IF pcb = 0
    THEN [w |-> w, err |-> ERR_OK]
    ELSE [w |-> [w EXCEPT !.contexts[id]._pcb = 0,
                          !.tcp_pcbs[pcb] = StackFrees(@, tcp_close_err)],
          err |-> IF tcp_close_err = ERR_OK THEN ERR_OK ELSE ERR_ABRT]

\* TcpClientContext::unref(): the last reference closes and deletes.
unref(w, id, tcp_close_err) ==
    LET w1 == [w EXCEPT !.contexts[id]._ref_cnt = @ - 1] IN
    IF w1.contexts[id]._ref_cnt = 0
    THEN [close(w1, id, tcp_close_err).w EXCEPT !.contexts[id].deleted = TRUE]
    ELSE w1

\* TcpClientContext::connect(): the err_t of tcp_connect(), ERR_OK when the
\* stack accepted the request and sent the SYN.
TcpClientContext_connect(w, id, tcp_connect_err) ==
    IF tcp_connect_err # ERR_OK
    THEN [w |-> w, err |-> tcp_connect_err]
    ELSE LET w1 == [w EXCEPT !.tcp_pcbs[w.contexts[id]._pcb].state = SYN_SENT]
         IN  [w |-> w1,
              err |-> IF w1.contexts[id]._pcb = 0 THEN ERR_ABRT ELSE ERR_OK]

\* TcpClientContext::wait_until_acked(): true at once without a PCB or off
\* ESTABLISHED, otherwise whether the peer acknowledged within the wait.
wait_until_acked(w, id, acked) ==
    LET pcb == w.contexts[id]._pcb IN
    IF pcb = 0 THEN TRUE
    ELSE IF w.tcp_pcbs[pcb].state # ESTABLISHED THEN TRUE
    ELSE acked

flush(w, acked) ==
    IF w._ctx = 0 THEN TRUE ELSE wait_until_acked(w, w._ctx, acked)

\* TcpClient::stop(maxWaitMs)
stop(w, acked, tcp_close_err) ==
    IF w._ctx = 0
    THEN [w |-> w, ret |-> TRUE]
    ELSE LET c == close(w, w._ctx, tcp_close_err) IN
         [w |-> c.w, ret |-> flush(w, acked) /\ c.err = ERR_OK]

\* TcpClient::shutdown(maxWaitMs): stop(), then the context is deleted and
\* the pointer cleared.
shutdown(w, acked, tcp_close_err) ==
    LET s == stop(w, acked, tcp_close_err) IN
    IF w._ctx = 0
    THEN s
    ELSE [w |-> [s.w EXCEPT !.contexts[w._ctx].deleted = TRUE, !._ctx = 0],
          ret |-> s.ret]

\* TcpClient::connect(ip, port)
connect(w, pcb_ok, tcp_connect_err, acked, tcp_close_err) ==
    LET w1 == IF w._ctx # 0
              THEN [unref(stop(w, acked, tcp_close_err).w, w._ctx,
                          tcp_close_err) EXCEPT !._ctx = 0]
              ELSE w
    IN
    IF ~pcb_ok
    THEN [w |-> w1, ret |-> 0]
    ELSE LET w2  == tcp_new(w1)
             w3  == TcpClientContext(w2, Len(w2.tcp_pcbs))
             id  == Len(w3.contexts)
             w4  == ref([w3 EXCEPT !._ctx = id], id)
             res == TcpClientContext_connect(w4, id, tcp_connect_err)
         IN  IF res.err = 0
             THEN [w |-> [unref(res.w, id, tcp_close_err) EXCEPT !._ctx = 0],
                   ret |-> 0]
             ELSE [w |-> res.w, ret |-> 1]

CnOthers == <<txvars, rxvars, sbvars, ebvars, pbvars, wmvars>>

SetWorld(w) ==
    /\ _ctx' = w._ctx
    /\ contexts' = w.contexts
    /\ tcp_pcbs' = w.tcp_pcbs
    /\ aborted' = aborted

BoolInt(b) == IF b THEN 1 ELSE 0

\* The application calls connect(ip, port); the inputs are what the stack
\* answers to tcp_new(), tcp_connect() and tcp_close() during the call.
Connect(pcb_ok, tcp_connect_err, acked, tcp_close_err) ==
    /\ pcb_ok => Len(tcp_pcbs) < MaxPcbs
    /\ LET r == connect(ClientWorld, pcb_ok, tcp_connect_err, acked,
                        tcp_close_err)
       IN  /\ SetWorld(r.w)
           /\ cn_ret' = [op |-> "connect", ret |-> r.ret]
    /\ UNCHANGED CnOthers

Stop(acked, tcp_close_err) ==
    /\ LET r == stop(ClientWorld, acked, tcp_close_err)
       IN  /\ SetWorld(r.w)
           /\ cn_ret' = [op |-> "stop", ret |-> BoolInt(r.ret)]
    /\ UNCHANGED CnOthers

Shutdown(acked, tcp_close_err) ==
    /\ LET r == shutdown(ClientWorld, acked, tcp_close_err)
       IN  /\ SetWorld(r.w)
           /\ cn_ret' = [op |-> "shutdown", ret |-> BoolInt(r.ret)]
    /\ UNCHANGED CnOthers

StackErrs == {ERR_OK, ERR_MEM}

CnInit == WriterInit(FALSE) /\ IoRxBuffer(0) /\ LibIdle

CnNext ==
    \/ \E pcb_ok, acked \in BOOLEAN :
          \E tcp_connect_err, tcp_close_err \in StackErrs :
              Connect(pcb_ok, tcp_connect_err, acked, tcp_close_err)
    \/ \E acked \in BOOLEAN : \E tcp_close_err \in StackErrs :
          Stop(acked, tcp_close_err)
    \/ \E acked \in BOOLEAN : \E tcp_close_err \in StackErrs :
          Shutdown(acked, tcp_close_err)

CnSpec == CnInit /\ [][CnNext]_vars

\* --------------------------------------- the context's stack callbacks
\* One connection of the client, from TcpClient::_ts_connect to its end:
\* the context, its PCB, the callbacks the context registered on the PCB
\* and the receive buffer those callbacks fill.
PICO_ERROR_IO == -6
PICO_ERROR_RESOURCE_IN_USE == -21

\* TcpClient::_ts_connect(ip, port): refuses while a context exists,
\* otherwise PCB, context, callbacks with arg, tcp_connect(); a failed
\* tcp_connect() frees the context again.
_ts_connect(w, pcb_ok, tcp_connect_err, tcp_close_err) ==
    IF w._ctx # 0
    THEN [w |-> w, ret |-> PICO_ERROR_RESOURCE_IN_USE]
    ELSE IF ~pcb_ok
    THEN [w |-> w, ret |-> PICO_ERROR_IO]
    ELSE LET w2  == tcp_new(w)
             w3  == TcpClientContext(w2, Len(w2.tcp_pcbs))
             id  == Len(w3.contexts)
             w4  == ref([w3 EXCEPT !._ctx = id], id)
             res == TcpClientContext_connect(w4, id, tcp_connect_err)
         IN  IF res.err # ERR_OK
             THEN [w |-> [unref(res.w, id, tcp_close_err) EXCEPT !._ctx = 0],
                   ret |-> res.err]
             ELSE [w |-> res.w, ret |-> PICO_OK]

\* TcpClient::_onErrorCallback(err)
_onErrorCallback(w) ==
    [close(w, w._ctx, ERR_OK).w EXCEPT !._ctx = 0]

\* TcpClientContext::_error(err): forget the PCB, then the error hook.
_error(w, id) == _onErrorCallback([w EXCEPT !.contexts[id]._pcb = 0])

\* The trampolines the constructor registers for sent, error and poll and
\* connect() registers for connected. arg is the client, whose context
\* they call; here it is whether arg is non-null. The context's
\* _connected(), _acked() and _poll() run the client's hook, which changes
\* none of the state modelled here, and return ERR_OK.
_s_error(w, arg) == IF arg THEN _error(w, w._ctx) ELSE w

_s_connected(w, arg) ==
    IF arg THEN [w |-> w, err |-> ERR_OK] ELSE [w |-> w, err |-> ERR_OK]

_s_acked(w, arg) ==
    IF arg THEN [w |-> w, err |-> ERR_OK] ELSE [w |-> w, err |-> ERR_OK]

_s_poll(w, arg) ==
    IF arg THEN [w |-> w, err |-> ERR_OK] ELSE [w |-> w, err |-> ERR_OK]

\* The connection: the context whose PCB the stack accepted a connect
\* for, 0 before there is one. _ts_connect() creates PCB and context
\* together, so they carry the same id.
Conn ==
    IF \E p \in DOMAIN tcp_pcbs : tcp_pcbs[p].state # CLOSED
    THEN CHOOSE p \in DOMAIN tcp_pcbs : tcp_pcbs[p].state # CLOSED
    ELSE 0

\* The stack still holds the connection's PCB and the context has not
\* unregistered its callbacks (close() does).
Registered ==
    /\ Conn # 0
    /\ tcp_pcbs[Conn].freed = ""
    /\ contexts[Conn]._pcb # 0

\* The application connects; the model follows the first connection the
\* stack accepts.
TsConnect(pcb_ok, tcp_connect_err, tcp_close_err) ==
    /\ ~aborted /\ Conn = 0
    /\ pcb_ok => Len(tcp_pcbs) < MaxPcbs
    /\ LET r == _ts_connect(ClientWorld, pcb_ok, tcp_connect_err,
                            tcp_close_err)
       IN  /\ SetWorld(r.w)
           /\ cn_ret' = [op |-> "_ts_connect", ret |-> r.ret]
    /\ UNCHANGED CnOthers

\* The peer answered the SYN: the stack enters ESTABLISHED and calls the
\* connected callback. The arg the stack passes to a callback is null in
\* an interrupt that falls into a teardown.
OnConnected(arg) ==
    /\ ~aborted /\ Registered /\ tcp_pcbs[Conn].state = SYN_SENT
    /\ LET w == [ClientWorld EXCEPT !.tcp_pcbs[Conn].state = ESTABLISHED]
           r == _s_connected(w, arg)
       IN  /\ SetWorld(r.w)
           /\ cn_ret' = [op |-> "connected", ret |-> r.err]
    /\ UNCHANGED CnOthers

OnSent(arg) ==
    /\ ~aborted /\ Registered /\ tcp_pcbs[Conn].state = ESTABLISHED
    /\ LET r == _s_acked(ClientWorld, arg)
       IN  /\ SetWorld(r.w)
           /\ cn_ret' = [op |-> "sent", ret |-> r.err]
    /\ UNCHANGED CnOthers

OnPoll(arg) ==
    /\ ~aborted /\ Registered
    /\ LET r == _s_poll(ClientWorld, arg)
       IN  /\ SetWorld(r.w)
           /\ cn_ret' = [op |-> "poll", ret |-> r.err]
    /\ UNCHANGED CnOthers

\* The stack gives the connection up: it frees the PCB and then calls the
\* error callback, which returns nothing.
OnError(arg) ==
    /\ ~aborted /\ Registered
    /\ LET w == [ClientWorld EXCEPT !.tcp_pcbs[Conn].freed = "tcp_err"]
       IN  /\ SetWorld(_s_error(w, arg))
           /\ cn_ret' = [op |-> "error", ret |-> ERR_OK]
    /\ UNCHANGED CnOthers

\* The receive callback the constructor registers is
\* lwip_receive_callback; with an arg it fills the context's receive
\* buffer.
OnRecv(lens, err) ==
    /\ ~aborted /\ Registered /\ tcp_pcbs[Conn].state = ESTABLISHED
    /\ Recv(lens, err)

\* lwip_receive_callback(nullptr, ...): assert(arg) stops a debug build.
\* With assert() compiled out the callback reads the buffer pointer through
\* the null context, which is undefined: the program faults, or carries on
\* with a pointer into memory that is none of the objects modelled here
\* and returns whatever the branches taken on that memory return.
RecvNullOutcomes == {"abort", "ERR_OK", "ERR_ABRT", "ERR_MEM"}

OnRecvNullArg(outcome) ==
    /\ ~aborted /\ Registered /\ tcp_pcbs[Conn].state = ESTABLISHED
    /\ aborted' = (outcome = "abort")
    /\ cn_ret' = [op |-> "recv",
                  ret |-> CASE outcome = "ERR_ABRT" -> ERR_ABRT
                            [] outcome = "ERR_MEM" -> ERR_MEM
                            [] OTHER -> ERR_OK]
    /\ UNCHANGED <<_ctx, contexts, tcp_pcbs, CnOthers>>

\* Besides the stack's callbacks, the application stops the client and
\* consumes bytes it has peeked. The stack hands over a FIN or one segment
\* at a time.
CxNext ==
    \/ \E pcb_ok \in BOOLEAN : \E tcp_connect_err, tcp_close_err \in StackErrs :
          TsConnect(pcb_ok, tcp_connect_err, tcp_close_err)
    \/ \E arg \in BOOLEAN : OnConnected(arg)
    \/ \E arg \in BOOLEAN : OnSent(arg)
    \/ \E arg \in BOOLEAN : OnPoll(arg)
    \/ \E arg \in BOOLEAN : OnError(arg)
    \/ \E lens \in {<<>>} \cup {<<k>> : k \in 1..MaxSegLen} :
          OnRecv(lens, "ERR_OK")
    \/ \E outcome \in RecvNullOutcomes : OnRecvNullArg(outcome)
    \/ ~aborted /\ \E acked \in BOOLEAN : \E tcp_close_err \in StackErrs :
          Stop(acked, tcp_close_err)
    \/ ~aborted /\ \E n \in 1..MaxConsume :
          n <= Buffered /\ PeekConsume(n)

CxSpec == CnInit /\ [][CxNext]_vars


\* ------------------------------------------------------ perpetual bridges
\* PerpetualBridge::initialiseBridge(): handler and payload are set and
\* the worker is handed to the context, which may refuse it.
PerpetualBridge_initialiseBridge(w, b) ==
    [bridges |-> [w.bridges EXCEPT ![b].state = "initialised"],
     workers |-> addWorker(w.workers, b).list]

\* PerpetualBridge::run() called on core c.
\* Variant: run() calls onWork() itself.
PerpetualBridge_run_inline(w, b, c) ==
    [w EXCEPT !.bridges[b].last = "onWork", !.bridges[b].work_core = c,
              !.bridges[b].inline = TRUE]

PerpetualBridge_run(w, b, c) ==
    [w EXCEPT !.bridges[b].work_pending = setWorkPending(@),
              !.bridges[b].last = "run"]

\* perpetual_bridging_function on core c: the worker's doWork(), which is
\* onWork().
perpetual_bridging_function(w, b, c) ==
    [w EXCEPT !.bridges[b].last = "onWork", !.bridges[b].work_core = c,
              !.bridges[b].inline = FALSE,
              !.bridges[b].late = (w.bridges[b].state = "destroyed")]

\* PerpetualBridge::~PerpetualBridge() on core c.
PerpetualBridge_destroy(w, b, c) ==
    [bridges |-> [w.bridges EXCEPT ![b].state = "destroyed",
                                   ![b].destroyed_by = c],
     workers |-> removeWorker(w.workers, b)]

PbCommit(w) ==
    /\ perpetual' = w.bridges
    /\ pb_workers' = w.workers
    /\ UNCHANGED <<txvars, rxvars, sbvars, ebvars, wmvars, cnvars>>

PbWorld == [bridges |-> perpetual, workers |-> pb_workers]

\* Code on core c sets the bridge up, once; add and remove take the
\* context's lock.
PbInitialise(b, c) ==
    /\ perpetual[b].state = "constructed" /\ ctx_lock = NoCore
    /\ PbCommit(PerpetualBridge_initialiseBridge(PbWorld, b))

\* Application code on either core, or a callback of the stack, which
\* runs in the context on the context's core, calls run().
PbRun(b, c) ==
    /\ perpetual[b].state = "initialised"
    /\ PbCommit(PerpetualBridge_run(PbWorld, b, c))

\* The context, on its core, runs a registered worker that is pending.
PbDispatch(b) ==
    /\ initiated /\ ctx_lock = NoCore
    /\ b \in pb_workers /\ perpetual[b].work_pending
    /\ PbCommit(perpetual_bridging_function(
                    [PbWorld EXCEPT !.bridges[b].work_pending = FALSE],
                    b, ContextCore))

PbDestroy(b, c) ==
    /\ perpetual[b].state # "destroyed" /\ ctx_lock = NoCore
    /\ PbCommit(PerpetualBridge_destroy(PbWorld, b, c))

\* The context is initialised before or after the bridges are set up.
PbNext ==
    \/ \E b \in Bridges, c \in Cores : PbInitialise(b, c)
    \/ \E b \in Bridges, c \in Cores : PbRun(b, c)
    \/ \E b \in Bridges : PbDispatch(b)
    \/ \E b \in Bridges, c \in Cores : PbDestroy(b, c)
    \/ \E sdk_ok \in BOOLEAN : InitContext(sdk_ok)

PbSpec == SbInit /\ [][PbNext]_vars

\* The context keeps running: a pending registered worker is dispatched.
PbFairSpec == PbSpec /\ \A b \in Bridges : WF_vars(PbDispatch(b))

\* ------------------------------------------------------ connection properties
\* C19: connect() on a client that already has a connection context does not
\* report success and leaves the client's context pointer, every context and
\* every PCB as they were.
C19_SecondConnectRefused ==
    [][ \A pcb_ok, acked \in BOOLEAN :
          \A tcp_connect_err, tcp_close_err \in StackErrs :
            (Connect(pcb_ok, tcp_connect_err, acked, tcp_close_err)
                /\ _ctx # 0) =>
                /\ cn_ret'.ret # 1
                /\ UNCHANGED <<_ctx, contexts, tcp_pcbs>> ]_vars

\* C20: connect(ip, port) returns 1 and leaves the client holding the
\* context it has just created, alive and with its PCB connecting, exactly
\* when a PCB was allocated and tcp_connect() returned ERR_OK; otherwise it
\* returns 0 and the client holds no context.
C20_ConnectReportsStack ==
    [][ \A pcb_ok, acked \in BOOLEAN :
          \A tcp_connect_err, tcp_close_err \in StackErrs :
            Connect(pcb_ok, tcp_connect_err, acked, tcp_close_err) =>
                IF pcb_ok /\ tcp_connect_err = ERR_OK
                THEN /\ cn_ret'.ret = 1
                     /\ Len(contexts') = Len(contexts) + 1
                     /\ _ctx' = Len(contexts')
                     /\ ~contexts'[_ctx'].deleted
                     /\ contexts'[_ctx']._pcb = Len(tcp_pcbs')
                     /\ tcp_pcbs'[Len(tcp_pcbs')].state = SYN_SENT
                     /\ tcp_pcbs'[Len(tcp_pcbs')].freed = ""
                ELSE cn_ret'.ret = 0 /\ _ctx' = 0 ]_vars

\* C21: stop() on a client without a context, or on one whose context's
\* PCB an earlier stop() has already had freed, returns true and hands no
\* PCB to the stack: the client, its contexts and every PCB stay as they
\* were.
C21_StopIdempotent ==
    [][ \A acked \in BOOLEAN : \A tcp_close_err \in StackErrs :
          (Stop(acked, tcp_close_err)
              /\ (_ctx = 0
                  \/ tcp_pcbs[contexts[_ctx].pcb_given].freed # "")) =>
              /\ cn_ret'.ret = 1
              /\ UNCHANGED <<_ctx, contexts, tcp_pcbs>> ]_vars

\* A first stop() whose tcp_close() failed returned false; only a further
\* stop() reports true on that context.
C21_Witness ==
    /\ cn_ret = [op |-> "stop", ret |-> 1]
    /\ _ctx # 0 /\ contexts[_ctx]._pcb = 0
    /\ tcp_pcbs[contexts[_ctx].pcb_given].freed = "tcp_abort"
    /\ ~tcp_pcbs[contexts[_ctx].pcb_given].misused

\* C28: close() on a connection context releases the pending receive
\* chain before it forgets the PCB: when a stop() that closed a PCB has
\* returned, the context's receive buffer holds no chain.
C28_CloseReleasesRx ==
    [][ \A acked \in BOOLEAN : \A tcp_close_err \in StackErrs :
          (Stop(acked, tcp_close_err)
              /\ _ctx # 0 /\ contexts[_ctx]._pcb # 0) =>
              _head' = 0 ]_vars

\* C29: each callback registered for a PCB (connected, recv, sent, error,
\* poll), called with a null arg, returns ERR_OK and leaves the client,
\* the contexts, the receive buffer and the writer as they were.
C29_NullArgIgnored ==
    [][ (\/ OnConnected(FALSE) \/ OnSent(FALSE) \/ OnPoll(FALSE)
         \/ OnError(FALSE)
         \/ \E outcome \in RecvNullOutcomes : OnRecvNullArg(outcome)) =>
            /\ cn_ret'.ret = ERR_OK
            /\ ~aborted'
            /\ UNCHANGED <<_ctx, contexts, txvars, rxvars>> ]_vars

\* C30: the error callback leaves the context without its PCB pointer,
\* the error hook it runs does not hand the freed PCB to the stack, and
\* once the context has been told of the error neither stop() nor
\* peekConsume() calls the stack for that PCB: the PCB is not closed
\* again and no tcp_recved() is issued.
C30_DeadPcbUntouched ==
    [][ /\ (Conn # 0 /\ OnError(TRUE)) =>
              /\ contexts'[Conn]._pcb = 0
              /\ ~tcp_pcbs'[Conn].misused
        /\ (/\ Conn # 0
            /\ tcp_pcbs[Conn].freed = "tcp_err"
            /\ contexts[Conn]._pcb = 0 /\ _ctx = 0) =>
              /\ tcp_pcbs'[Conn].misused = tcp_pcbs[Conn].misused
              /\ \A n \in 1..MaxConsume :
                    PeekConsume(n) => recved' = <<>> ]_vars

\* C33: execute() calls on one SyncBridge from different cores never
\* overlap: a call past lockBridge() owns the bridge mutex, no other call
\* on that bridge is past lockBridge(), and so the workers registered in
\* the context belong to calls on different bridges.
C33_ExecuteSerialised ==
    /\ \A c \in Cores :
          sb_call[c].pc \in {"entered", "waiting"} =>
              m_execution_mutex[sb_call[c].bridge] = c
    /\ \A c \in when_pending_list : sb_call[c].pc = "waiting"
    /\ \A c1, c2 \in Cores :
          (/\ c1 # c2
           /\ sb_call[c1].pc \in {"entered", "waiting"}
           /\ sb_call[c2].pc \in {"entered", "waiting"}) =>
              sb_call[c1].bridge # sb_call[c2].bridge

\* One core's worker is registered while the other core's call on the same
\* bridge waits in lockBridge().
C33_Witness ==
    \E c1, c2 \in Cores :
        /\ c1 # c2 /\ c1 \in when_pending_list
        /\ sb_call[c1].api = "execute" /\ sb_call[c2].api = "execute"
        /\ sb_call[c2].pc = "calling"
        /\ sb_call[c2].bridge = sb_call[c1].bridge

\* C31: once initialiseBridge() has registered a perpetual bridge, every
\* run() is followed by an onWork() of that bridge for as long as it stays
\* registered, and onWork() only ever runs in the context on the
\* context's core, never inside run().
C31_RunLeadsToWork ==
    /\ \A b \in Bridges :
          (b \in pb_workers /\ perpetual[b].last = "run") ~>
              (perpetual[b].last = "onWork" \/ b \notin pb_workers)
    /\ [](\A b \in Bridges :
              perpetual[b].work_core # NoCore =>
                  /\ perpetual[b].work_core = ContextCore
                  /\ ~perpetual[b].inline)

\* onWork() has run after a run() on a registered bridge.
C31_Witness ==
    \E b \in Bridges :
        /\ b \in pb_workers /\ perpetual[b].last = "onWork"
        /\ ~perpetual[b].work_pending
        /\ perpetual[b].work_core = ContextCore

\* C32: after the destructor of a perpetual bridge has returned, its
\* worker is not in the context's list and onWork() has not run since,
\* whichever core destroyed it and whether or not run() had marked it
\* pending.
C32_DestroyedNeverWorks ==
    \A b \in Bridges :
        perpetual[b].state = "destroyed" =>
            /\ b \notin pb_workers
            /\ ~perpetual[b].late

\* A bridge destroyed from the other core right after run() marked it
\* pending, while the context is running.
C32_Witness ==
    \E b \in Bridges :
        /\ perpetual[b].state = "destroyed" /\ initiated
        /\ perpetual[b].last = "run" /\ perpetual[b].work_pending
        /\ perpetual[b].destroyed_by # ContextCore

\* -------------------------------------------------- the watermark helpers
HIGH_WATERMARK_PCT == 70
LOW_WATERMARK_PCT == 50

totalCapacityEstimate(w) == w.m_last_free_estimate + inFlightBytes(w)

dynamicHighWatermarkBytes(w) ==
    LET cap == totalCapacityEstimate(w) IN
    IF cap = 0 THEN 0 ELSE (cap * HIGH_WATERMARK_PCT) \div 100

dynamicLowWatermarkBytes(w) ==
    LET cap == totalCapacityEstimate(w) IN
    IF cap = 0 THEN 0 ELSE (cap * LOW_WATERMARK_PCT) \div 100

\* Variant: backpressure only above the high watermark.
shouldBackpressure_above(w) ==
    LET in_flight == inFlightBytes(w)
        high == dynamicHighWatermarkBytes(w) IN
    IF high = 0 THEN FALSE ELSE in_flight > high

shouldBackpressure(w) ==
    LET in_flight == inFlightBytes(w)
        high == dynamicHighWatermarkBytes(w) IN
    IF high = 0 THEN FALSE ELSE in_flight >= high

canReleaseBackpressure(w) ==
    LET in_flight == inFlightBytes(w)
        low == dynamicLowWatermarkBytes(w) IN
    IF low = 0 THEN TRUE ELSE in_flight <= low

\* A write in progress with every combination of queued and acknowledged
\* bytes and of cached free space up to MaxInFlight.
WmInit ==
    /\ IoRxBuffer(0) /\ LibIdle
    /\ m_write_in_progress = TRUE /\ m_data = 1
    /\ m_total_size = MaxInFlight
    /\ m_queued \in 0..MaxInFlight /\ m_acked \in 0..m_queued
    /\ m_last_free_estimate \in 0..MaxInFlight
    /\ m_write_start_time = TickUs /\ m_last_progress_time = TickUs
    /\ m_mode = "Acked"
    /\ at_time_list = <<>> /\ snd_unacked = 0
    /\ ctx_pcb = TRUE /\ client_ctx = TRUE
    /\ now = TickUs
    /\ fin_seen = FALSE /\ fin_closed = FALSE /\ late_ack = FALSE
    /\ ndebug = FALSE
    /\ halted = FALSE
    /\ caller_pc = [c \in Callers |-> "idle"]
    /\ gen = 1 /\ cas_winners = {} /\ ack_sum = 0 /\ ncomplete = 0
    /\ acked_run = FALSE /\ start_total = 0 /\ timed_out = 0

\* The application asks shouldBackpressure().
ShouldBackpressure ==
    /\ advice' = [asked |-> "shouldBackpressure",
                  value |-> shouldBackpressure(Writer)]
    /\ UNCHANGED <<txvars, rxvars, sbvars, ebvars, pbvars, cnvars>>

\* The application asks canReleaseBackpressure().
CanReleaseBackpressure ==
    /\ advice' = [asked |-> "canReleaseBackpressure",
                  value |-> canReleaseBackpressure(Writer)]
    /\ UNCHANGED <<txvars, rxvars, sbvars, ebvars, pbvars, cnvars>>

WmNext == ShouldBackpressure \/ CanReleaseBackpressure

WmSpec == WmInit /\ [][WmNext]_vars

\* C34 as stated: shouldBackpressure() is true exactly when the bytes in
\* flight are at least 70 % of (cached free + in flight) and
\* canReleaseBackpressure() exactly when they are at most 50 % of it, the
\* percentages taken exactly; neither call changes the writer.
C34_WatermarksExact ==
    LET in_flight == inFlightBytes(Writer)
        cap == totalCapacityEstimate(Writer) IN
    /\ advice.asked = "shouldBackpressure" =>
         (advice.value <=> (100 * in_flight >= 70 * cap))
    /\ advice.asked = "canReleaseBackpressure" =>
         (advice.value <=> (100 * in_flight <= 50 * cap))

\* C34 amended: with the watermarks rounded down to whole bytes,
\* high = (70 * cap) \div 100 and low = (50 * cap) \div 100 for
\* cap = cached free + in flight, shouldBackpressure() is true exactly
\* when high > 0 and in flight >= high, canReleaseBackpressure() exactly
\* when low = 0 or in flight <= low; a call changes no writer field.
C34_WatermarksFloor ==
    /\ [](LET in_flight == inFlightBytes(Writer)
              cap == totalCapacityEstimate(Writer)
              high == (70 * cap) \div 100
              low == (50 * cap) \div 100 IN
          /\ advice.asked = "shouldBackpressure" =>
               (advice.value <=> (high > 0 /\ in_flight >= high))
          /\ advice.asked = "canReleaseBackpressure" =>
               (advice.value <=> (low = 0 \/ in_flight <= low)))
    /\ [][advice' # advice => UNCHANGED txvars]_vars

\* Backpressure is advised at two of three bytes in flight, which is below
\* 70 %.
C34_Witness ==
    /\ advice = [asked |-> "shouldBackpressure", value |-> TRUE]
    /\ inFlightBytes(Writer) = 2 /\ totalCapacityEstimate(Writer) = 3

\* ------------------------------------------- the writer's chunk handlers
\* C35: while a chunk handler scheduled by a write is still pending, the
\* buffer it points into is the one the writer owns: no completion path
\* has released it.
C35_BufferOutlivesHandlers ==
    \A i \in 1..Len(at_time_list) : at_time_list[i].data = m_data

C37_ChunkAcceptedWhole ==
    [][(/\ at_time_list # <<>> /\ at_time_list' = Tail(at_time_list)
        /\ client_ctx /\ client_ctx')
       => snd_unacked' = snd_unacked + Head(at_time_list).size]_vars

\* C38: an ACK is credited to the running write only for bytes of that
\* write.  The bytes of the write the stack has been handed are queued
\* less the chunks still waiting in its handlers; an ACK arriving during
\* the write never raises the ACKs counted for it above that.
C38_NoStaleAck ==
    [][LET own == [i \in 1..Len(at_time_list) |->
                     IF at_time_list[i].data = m_data
                     THEN at_time_list[i].size ELSE 0]
           handed == m_queued - SumSeq(own)
           len == snd_unacked - snd_unacked' IN
       (m_write_in_progress /\ m_data # 0 /\ len > 0)
       => m_acked + len <= handed]_vars

\* ------------------------------------------------ writes come to an end
\* The clock of a running system: time goes on for as long as the running
\* write has not yet gone STALL_TIMEOUT_US without progress, which is as
\* far as the writer looks.
StallClock == Elapse(m_last_progress_time + STALL_TIMEOUT_US)

TxLiveNext ==
    \/ ClientWrite(0)
    \/ \E size \in 1..MaxSize : WriterWrite(0, size)
    \/ \E werr \in {"ERR_OK", "ERR_MEM"} : HandlerFire(werr)
    \/ \E len \in 1..SndBufCap : Sent(len)
    \/ Poll
    \/ StallClock
    \/ WriterOnError
    \/ StackError
    \/ \E mode \in {"Acked", "Enqueued"} : SetMode(mode)

\* The caller that won the CAS goes on to TcpWriter::write, the context
\* runs its due handlers, the stack polls the connection it has and time
\* advances; ACKs, FIN and errors may or may not come.
TxLiveSpec ==
    /\ TxInit /\ [][TxLiveNext]_vars
    /\ WF_vars(\E size \in 1..MaxSize : WriterWrite(0, size))
    /\ WF_vars(\E werr \in {"ERR_OK", "ERR_MEM"} : HandlerFire(werr))
    /\ WF_vars(Poll)
    /\ WF_vars(StallClock)

\* C39: while the program runs and the stack has the connection to poll,
\* a write in progress comes to an end.
C39_WriteEnds ==
    m_write_in_progress
        ~> (~m_write_in_progress \/ halted \/ ~(ctx_pcb /\ client_ctx))

\* A write that got no ACK for its queued bytes was ended by the stall
\* timeout, and a second write was started after it.
C39_Witness ==
    /\ timed_out = 1 /\ gen = 2 /\ m_write_in_progress
    /\ ctx_pcb /\ client_ctx /\ ~fin_seen

\* ------------------------------------------- the life of a context
\* C40: a context the client no longer points to has had its reference
\* given back and has been deleted, and no count goes below zero.
C40_DroppedContextDestroyed ==
    \A id \in DOMAIN contexts :
        /\ contexts[id]._ref_cnt >= 0
        /\ id # _ctx => contexts[id]._ref_cnt = 0 /\ contexts[id].deleted

====
